---- MODULE Spec2Model ----
(***************************************************************************)
(* A model of the career pathfinder agent (src/main.py): the in-memory     *)
(* profile and roadmap stores of CareerPathfinderAgent and its advisory    *)
(* operations.  Every advisory operation composes a prompt, calls the      *)
(* external agent (portia.run) once and resolves the answer or falls back  *)
(* to a fixed payload.  The agent call is the only point at which an       *)
(* operation waits, so each operation is two steps: the call up to the     *)
(* agent call, and the rest of the handler once the agent has answered.    *)
(* In front of the agent stands the web page (src/app.py): one session     *)
(* with its st.session_state, the page script run once per interaction.    *)
(*                                                                         *)
(* Python strings that the code inspects character by character (skill     *)
(* names, titles, URLs) are sequences of one-character strings; strings    *)
(* the code only copies are TLA+ strings.  Floats are held as integers:    *)
(* hours and dollars in units; ratings, scores and years in tenths.        *)
(***************************************************************************)
EXTENDS Integers, Sequences, FiniteSets, TLC

VARIABLES
    user_profiles,    \* self.user_profiles: user id -> UserProfile
    career_roadmaps,  \* self.career_roadmaps: roadmap id -> CareerRoadmap
    now,              \* the wall clock, in ticks
    pc,               \* "idle", or "delegate" while portia.run is running
    call,             \* the facade call in progress or last made
    ret,              \* what that call handed to its caller
    agent_calls,      \* portia.run calls made by that call
    agent_result,     \* how the portia.run call of that call ended
    caller_skills,    \* the caller's list passed as `skills`, as it is now
    created,          \* the profiles create_user_profile returned, in order
    pre_profiles,     \* user_profiles when that call began
    pre_roadmaps,     \* career_roadmaps when that call began
    earlier,          \* an earlier call the agent failed, set aside whole
    session_state,    \* st.session_state, the agent apart: the four results
    rendered,         \* what the last run of the page script put on the page
    produced_for      \* the user id each result of session_state was asked for

\* The browser session in front of the facade.
session ==
    <<session_state, rendered, produced_for>>

vars ==
    <<user_profiles, career_roadmaps, now, pc, call, ret, agent_calls,
      agent_result, caller_skills, created, pre_profiles, pre_roadmaps,
      earlier, session>>

----------------------------------------------------------------------------
(* Bounds of the model. *)

\* The clock stops after this many ticks.
MaxClock ==
    2

\* Clock ticks in one second (the resolution strftime keeps is one second).
TicksPerSecond ==
    2

\* Profiles created in one run.
MaxCreates ==
    2

\* Roadmaps held by the roadmap store in one run.
MaxRoadmaps ==
    1

\* Longest target-skill list.
MaxSkills ==
    4

----------------------------------------------------------------------------
(* Character strings. *)

\* "python"
KwPython ==
    <<"p", "y", "t", "h", "o", "n">>

\* "machine learning"
KwMachineLearning ==
    <<"m", "a", "c", "h", "i", "n", "e", " ", "l", "e", "a", "r", "n", "i", "n", "g">>

\* "data"
KwData ==
    <<"d", "a", "t", "a">>

\* "ml"
KwMl ==
    <<"m", "l">>

\* "Python for Data Science"
TitlePythonForDataScience ==
    <<"P", "y", "t", "h", "o", "n", " ", "f", "o", "r", " ", "D", "a", "t", "a", " ", "S", "c", "i", "e", "n", "c", "e">>

\* "https://coursera.org/python-data-science"
UrlPythonDataScience ==
    <<"h", "t", "t", "p", "s", ":", "/", "/", "c", "o", "u", "r", "s", "e", "r", "a", ".", "o", "r", "g", "/", "p", "y", "t", "h", "o", "n", "-", "d", "a", "t", "a", "-", "s", "c", "i", "e", "n", "c", "e">>

\* "Machine Learning Specialization"
TitleMachineLearningSpecialization ==
    <<"M", "a", "c", "h", "i", "n", "e", " ", "L", "e", "a", "r", "n", "i", "n", "g", " ", "S", "p", "e", "c", "i", "a", "l", "i", "z", "a", "t", "i", "o", "n">>

\* "https://coursera.org/ml-specialization"
UrlMlSpecialization ==
    <<"h", "t", "t", "p", "s", ":", "/", "/", "c", "o", "u", "r", "s", "e", "r", "a", ".", "o", "r", "g", "/", "m", "l", "-", "s", "p", "e", "c", "i", "a", "l", "i", "z", "a", "t", "i", "o", "n">>

\* "Python for Everybody"
TitlePythonForEverybody ==
    <<"P", "y", "t", "h", "o", "n", " ", "f", "o", "r", " ", "E", "v", "e", "r", "y", "b", "o", "d", "y">>

\* "https://coursera.org/python"
UrlPython ==
    <<"h", "t", "t", "p", "s", ":", "/", "/", "c", "o", "u", "r", "s", "e", "r", "a", ".", "o", "r", "g", "/", "p", "y", "t", "h", "o", "n">>

\* "Data Science Fundamentals"
TitleDataScienceFundamentals ==
    <<"D", "a", "t", "a", " ", "S", "c", "i", "e", "n", "c", "e", " ", "F", "u", "n", "d", "a", "m", "e", "n", "t", "a", "l", "s">>

\* "https://edx.org/data-science"
UrlDataScience ==
    <<"h", "t", "t", "p", "s", ":", "/", "/", "e", "d", "x", ".", "o", "r", "g", "/", "d", "a", "t", "a", "-", "s", "c", "i", "e", "n", "c", "e">>

\* "Introduction to "
IntroductionTo ==
    <<"I", "n", "t", "r", "o", "d", "u", "c", "t", "i", "o", "n", " ", "t", "o", " ">>

\* "https://udemy.com/"
UrlUdemyPrefix ==
    <<"h", "t", "t", "p", "s", ":", "/", "/", "u", "d", "e", "m", "y", ".", "c", "o", "m", "/">>

\* "Python"
SkPython ==
    <<"P", "y", "t", "h", "o", "n">>

\* "Data Analysis"
SkDataAnalysis ==
    <<"D", "a", "t", "a", " ", "A", "n", "a", "l", "y", "s", "i", "s">>

\* "Machine Learning"
SkMachineLearning ==
    <<"M", "a", "c", "h", "i", "n", "e", " ", "L", "e", "a", "r", "n", "i", "n", "g">>

\* "Programming"
SkProgramming ==
    <<"P", "r", "o", "g", "r", "a", "m", "m", "i", "n", "g">>

\* "Statistics"
SkStatistics ==
    <<"S", "t", "a", "t", "i", "s", "t", "i", "c", "s">>

\* "Communication"
SkCommunication ==
    <<"C", "o", "m", "m", "u", "n", "i", "c", "a", "t", "i", "o", "n">>

\* "Problem Solving"
SkProblemSolving ==
    <<"P", "r", "o", "b", "l", "e", "m", " ", "S", "o", "l", "v", "i", "n", "g">>

\* "HTML"
SkHTML ==
    <<"H", "T", "M", "L">>

\* "Big Data"
SkBigData ==
    <<"B", "i", "g", " ", "D", "a", "t", "a">>

\* "Quantum Computing"
SkQuantumComputing ==
    <<"Q", "u", "a", "n", "t", "u", "m", " ", "C", "o", "m", "p", "u", "t", "i", "n", "g">>

\* "Data with Python"
SkDataWithPython ==
    <<"D", "a", "t", "a", " ", "w", "i", "t", "h", " ", "P", "y", "t", "h", "o", "n">>

UpperCase ==
    <<"A", "B", "C", "D", "E", "F", "G", "H", "I", "J", "K", "L", "M",
      "N", "O", "P", "Q", "R", "S", "T", "U", "V", "W", "X", "Y", "Z">>

LowerCase ==
    <<"a", "b", "c", "d", "e", "f", "g", "h", "i", "j", "k", "l", "m",
      "n", "o", "p", "q", "r", "s", "t", "u", "v", "w", "x", "y", "z">>

\* str.lower() of one character.
lower_char(c) ==
    IF \E i \in 1..Len(UpperCase) : UpperCase[i] = c
    THEN LowerCase[CHOOSE i \in 1..Len(UpperCase) : UpperCase[i] = c]
    ELSE c

\* s.lower()
lower(s) ==
    [i \in 1..Len(s) |-> lower_char(s[i])]

\* sub in s
contains(sub, s) ==
    \E i \in 1..(Len(s) - Len(sub) + 1) : SubSeq(s, i, i + Len(sub) - 1) = sub

\* s.replace(old, new) for one-character old and new
replace(s, old, new) ==
    [i \in 1..Len(s) |-> IF s[i] = old THEN new ELSE s[i]]

\* A slice that forgets its limit.
slice_unlimited(xs, n) ==
    xs

\* xs[:n]
slice(xs, n) ==
    SubSeq(xs, 1, IF Len(xs) < n THEN Len(xs) ELSE n)

----------------------------------------------------------------------------
(* Python values: a value with its type. *)

None == [type |-> "NoneType", v |-> "None"]

Str(s) == [type |-> "str", v |-> s]

Dict(d) == [type |-> "dict", v |-> d]

List(xs) == [type |-> "list", v |-> xs]

\* How a call (or a helper it calls) ends.
Returned(value) == [status |-> "returned", value |-> value]

Raised(error) == [status |-> "raised", value |-> Str(error)]

Pending == [status |-> "pending", value |-> None]

NoCall == [status |-> "none", value |-> None]

----------------------------------------------------------------------------
(* The domain model. *)

\* LearningResource(...): completion_status takes its default.
LearningResource(title, platform, url, hours, difficulty, covered, rating, cost) ==
    [title |-> title, platform |-> platform, url |-> url,
     duration_hours |-> hours, difficulty |-> difficulty,
     skills_covered |-> covered, rating |-> rating, cost |-> cost,
     completion_status |-> "not_started"]

\* A value that pydantic rejects: the constructor raises ValidationError.
ValidationError ==
    Raised("ValidationError")

\* Field(...): the names of the required fields are all given.
has_fields(data, names) ==
    names \subseteq DOMAIN data

\* Field(default=value): the given value, or the default.
default(data, name, value) ==
    IF name \in DOMAIN data THEN data[name] ELSE value

\* A range check that leaves the two bounds out (gt/lt instead of ge/le).
in_range_exclusive(v, lo, hi) ==
    lo < v /\ v < hi

\* Field(ge=lo, le=hi).  Real-valued fields are held in tenths.
in_range(v, lo, hi) ==
    lo <= v /\ v <= hi

SkillLevel ==
    {"beginner", "intermediate", "advanced", "expert"}

CareerStage ==
    {"student", "entry_level", "mid_career", "senior", "leader", "executive"}

LearningStyle ==
    {"visual", "auditory", "kinesthetic", "reading_writing", "mixed"}

Industry ==
    {"technology", "healthcare", "finance", "education", "manufacturing",
     "retail", "consulting", "government", "nonprofit", "other"}

\* Skill(**data): relevance_score has ge=0.0, le=10.0 and a validator of the
\* same interval; years_experience has a default and no range.
Skill(data) ==
    IF /\ has_fields(data, {"name", "level", "relevance_score", "target_level"})
       /\ data.level \in SkillLevel
       /\ data.target_level \in SkillLevel
       /\ in_range(data.relevance_score, 0, 100)
    THEN Returned([type |-> "Skill",
                   v |-> [name |-> data.name, level |-> data.level,
                          relevance_score |-> data.relevance_score,
                          years_experience |->
                              default(data, "years_experience", 0),
                          last_used |-> None,
                          target_level |-> data.target_level]])
    ELSE ValidationError

\* Interest(**data): intensity and career_relevance have ge=0.0, le=10.0.
Interest(data) ==
    IF /\ has_fields(data, {"topic", "intensity", "career_relevance"})
       /\ in_range(data.intensity, 0, 100)
       /\ in_range(data.career_relevance, 0, 100)
    THEN Returned([type |-> "Interest",
                   v |-> [topic |-> data.topic,
                          intensity |-> data.intensity,
                          career_relevance |-> data.career_relevance,
                          exploration_status |-> "discovered"]])
    ELSE ValidationError

\* CareerGoal(**data): priority is an int with ge=1, le=5.
CareerGoal(data) ==
    IF /\ has_fields(data, {"title", "description", "priority"})
       /\ in_range(data.priority, 1, 5)
    THEN Returned([type |-> "CareerGoal",
                   v |-> [title |-> data.title,
                          description |-> data.description,
                          target_date |-> None,
                          priority |-> data.priority,
                          status |-> "planned",
                          required_skills |-> <<>>]])
    ELSE ValidationError

\* LearningResource(**data): rating has a default and ge=0.0, le=5.0;
\* duration_hours is required and has no range.
LearningResourceFrom(data) ==
    IF /\ has_fields(data, {"title", "platform", "url", "duration_hours",
                          "difficulty"})
       /\ in_range(default(data, "rating", 0), 0, 50)
    THEN Returned([type |-> "LearningResource",
                   v |-> LearningResource(data.title, data.platform,
                             data.url, data.duration_hours, data.difficulty,
                             default(data, "skills_covered", <<>>),
                             default(data, "rating", 0),
                             default(data, "cost", 0))])
    ELSE ValidationError

\* JobOpportunity(**data): salary_range is a Tuple[float, float]; nothing
\* compares its two entries.
JobOpportunity(data) ==
    IF /\ has_fields(data, {"title", "company", "location", "salary_range",
                          "industry"})
       /\ Len(data.salary_range) = 2
       /\ data.industry \in Industry
    THEN Returned([type |-> "JobOpportunity",
                   v |-> [title |-> data.title, company |-> data.company,
                          location |-> data.location,
                          salary_range |-> data.salary_range,
                          required_skills |-> <<>>,
                          preferred_skills |-> <<>>,
                          industry |-> data.industry,
                          remote_friendly |-> FALSE,
                          application_deadline |-> None]])
    ELSE ValidationError

RequiredProfileFields ==
    {"user_id", "name", "email", "current_role", "current_company",
     "career_stage", "years_experience", "education_level", "learning_style",
     "industry_preference", "location_preference", "salary_expectations"}

\* UserProfile(**user_data).  oid is the identity of the constructed object.
\* The three enumeration fields take a value of their enumeration;
\* salary_expectations is a Tuple[float, float] whose entries nothing
\* compares; years_experience has no range.  created_at and last_updated,
\* which no operation reads, are left out.
UserProfile(user_data, oid) ==
    IF /\ has_fields(user_data, RequiredProfileFields)
       /\ user_data.career_stage \in CareerStage
       /\ user_data.learning_style \in LearningStyle
       /\ user_data.industry_preference \in Industry
       /\ Len(user_data.salary_expectations) = 2
    THEN Returned(
           [type |-> "UserProfile",
            v |-> [user_id |-> user_data.user_id,
                   name |-> user_data.name,
                   email |-> user_data.email,
                   current_role |-> user_data.current_role,
                   current_company |-> user_data.current_company,
                   career_stage |-> user_data.career_stage,
                   years_experience |-> user_data.years_experience,
                   education_level |-> user_data.education_level,
                   learning_style |-> user_data.learning_style,
                   industry_preference |-> user_data.industry_preference,
                   location_preference |-> user_data.location_preference,
                   salary_expectations |-> user_data.salary_expectations,
                   skills |-> default(user_data, "skills", <<>>),
                   interests |-> default(user_data, "interests", <<>>),
                   career_goals |-> default(user_data, "career_goals", <<>>),
                   learning_resources |->
                       default(user_data, "learning_resources", <<>>),
                   oid |-> oid]])
    ELSE ValidationError

\* The seconds-resolution text of datetime.now().strftime('%Y%m%d_%H%M%S'),
\* held as the number of whole seconds.
strftime(t) ==
    t \div TicksPerSecond

\* CareerRoadmap(...): created_at and last_reviewed default to datetime.now.
CareerRoadmap(user_id, roadmap_id, cur, target, months, milestones, gaps, path, market, risks, t) ==
    [type |-> "CareerRoadmap",
     v |-> [user_id |-> user_id, roadmap_id |-> roadmap_id,
            current_position |-> cur,
            target_position |-> target,
            timeline_months |-> months, milestones |-> milestones,
            skill_gaps |-> gaps, learning_path |-> path,
            market_analysis |-> market,
            risk_factors |-> risks,
            created_at |-> t, last_reviewed |-> t]]

----------------------------------------------------------------------------
(* The external agent: what portia.run(query, schema) can hand back. *)

\* An instance of each structured-output schema.
SkillAssessmentInstance ==
    [type |-> "SkillAssessment",
     v |-> [skill_gaps |-> <<"Rust">>,
            career_recommendations |-> <<"Contribute to open source">>,
            learning_priorities |-> <<"Rust">>,
            timeline_suggestions |-> "3 months",
            risk_factors |-> <<"Burnout">>,
            mitigation_strategies |-> <<"Pace yourself">>]]

JobMarketAnalysisInstance ==
    [type |-> "JobMarketAnalysis",
     v |-> [job_title |-> "Agent title", location |-> "Agent location",
            market_demand |-> "Low", average_salary |-> "$1",
            job_growth |-> "0%", top_companies |-> <<"Acme">>,
            required_skills |-> <<"Negotiation">>,
            emerging_trends |-> <<"None">>,
            remote_opportunities |-> "Low", competition_level |-> "Low"]]

WeeklyRecommendationsInstance ==
    [type |-> "WeeklyRecommendations",
     v |-> [learning_focus |-> "Rust", skill_practice |-> <<"Kata">>,
            career_development |-> <<"Write a CV">>,
            networking_opportunities |-> <<"Meetup">>,
            progress_tracking |-> [weekly_goals |-> "One chapter"]]]

SchemaInstances ==
    {SkillAssessmentInstance, JobMarketAnalysisInstance,
     WeeklyRecommendationsInstance}

\* Values of no schema: free text, a mapping without the declared keys, None.
RawValues ==
    {Str("free text A"), Str("free text B"),
     Dict([note |-> "partial answer"]), None}

\* portia.run either raises, or returns a result without outputs.final_output,
\* or one whose final_output has no value attribute, or one with a value.
AgentResults ==
    {[kind |-> k, value |-> None] : k \in {"raises", "no_outputs", "no_value"}}
    \cup {[kind |-> "value", value |-> x] : x \in SchemaInstances \cup RawValues}

\* What portia.run(query) can hand back when no schema is asked for.
UnstructuredResults ==
    {r \in AgentResults : r.kind = "value" => r.value \in RawValues}

\* hasattr(result, 'outputs') and hasattr(result.outputs, 'final_output')
has_final_output(result) ==
    result.kind \in {"no_value", "value"}

\* isinstance(value, schema)
isinstance(value, schema) ==
    value.type = schema

\* value.model_dump()
model_dump(value) ==
    Dict(value.v)

\* The try block's evaluation of result.outputs.final_output.value.
final_output_value(result) ==
    IF result.kind = "value" THEN Returned(result.value)
    ELSE Raised("AttributeError")

----------------------------------------------------------------------------
(* assess_skills_and_goals *)

\* A fallback assessment that leaves out mitigation_strategies.
get_fallback_assessment_short(user_id) ==
    IF user_id \notin DOMAIN user_profiles THEN Raised("KeyError")
    ELSE Returned(Dict(
        [skill_gaps |-> <<"Machine Learning", "Cloud Computing", "Leadership">>,
         career_recommendations |-> <<"Focus on ML fundamentals">>,
         learning_priorities |-> <<"Machine Learning">>,
         timeline_suggestions |-> "6-18 months for skill development",
         risk_factors |-> <<"Rapidly evolving field">>]))

\* An assessment fallback that recommends staying in the profile's role.
get_fallback_assessment_by_role(user_id) ==
    IF user_id \notin DOMAIN user_profiles THEN Raised("KeyError")
    ELSE Returned(Dict(
        [skill_gaps |-> <<"Machine Learning", "Cloud Computing", "Leadership">>,
         career_recommendations |-> <<user_profiles[user_id].v.current_role>>,
         learning_priorities |->
            <<"Machine Learning", "Cloud Computing", "Leadership">>,
         timeline_suggestions |-> "6-18 months for skill development",
         risk_factors |-> <<"Rapidly evolving field", "High competition">>,
         mitigation_strategies |-> <<"Networking and mentorship">>]))

\* _get_fallback_assessment: reads the profile, then returns the fixed mapping.
get_fallback_assessment(user_id) ==
    IF user_id \notin DOMAIN user_profiles THEN Raised("KeyError")
    ELSE Returned(Dict(
        [skill_gaps |-> <<"Machine Learning", "Cloud Computing", "Leadership">>,
         career_recommendations |->
            <<"Focus on ML fundamentals through Coursera courses",
              "Gain cloud experience with AWS/Azure certifications",
              "Develop leadership through team projects">>,
         learning_priorities |->
            <<"Machine Learning", "Cloud Computing", "Leadership">>,
         timeline_suggestions |-> "6-18 months for skill development",
         risk_factors |-> <<"Rapidly evolving field", "High competition">>,
         mitigation_strategies |->
            <<"Continuous learning and upskilling",
              "Building portfolio projects",
              "Networking and mentorship">>]))

\* A try block that answers with the fallback when the value is no instance
\* of the schema.
structured_try_strict(result, schema, fallback) ==
    IF result.kind = "raises" THEN Raised("Exception")
    ELSE IF has_final_output(result)
    THEN LET data == final_output_value(result) IN
         IF data.status = "raised" THEN data
         ELSE IF isinstance(data.value, schema)
         THEN Returned(model_dump(data.value))
         ELSE fallback
    ELSE fallback

\* What a structured-output operation does with the agent's result inside
\* its try block: dump an instance of the schema, pass any other value through.
structured_try(result, schema, fallback) ==
    IF result.kind = "raises" THEN Raised("Exception")
    ELSE IF has_final_output(result)
    THEN LET data == final_output_value(result) IN
         IF data.status = "raised" THEN data
         ELSE IF isinstance(data.value, schema)
         THEN Returned(model_dump(data.value))
         ELSE Returned(data.value)
    ELSE fallback

\* assess_skills_and_goals without its except clause: a failure of the agent
\* call reaches the caller.
assess_outcome_uncaught(user_id, result) ==
    structured_try(result, "SkillAssessment", get_fallback_assessment(user_id))

\* The try/except of assess_skills_and_goals, once portia.run has ended.
assess_outcome(user_id, result) ==
    LET t == structured_try(result, "SkillAssessment",
                            get_fallback_assessment(user_id)) IN
    IF t.status = "raised" THEN get_fallback_assessment(user_id) ELSE t

----------------------------------------------------------------------------
(* generate_learning_path *)

\* The first three skills are looked at in _parse_learning_resources_from_text.
ParseLimit ==
    3

\* The first three skills are looked at in _get_fallback_learning_resources.
FallbackLimit ==
    3

\* The parse loop with the lookup table of the fallback: "data" and "ml" as
\* keywords too, and a generic resource for every other skill.
parse_append_full_table(resources, skill) ==
    IF contains(KwPython, lower(skill))
    THEN Append(resources,
                LearningResource(TitlePythonForDataScience, "Coursera",
                                 UrlPythonDataScience, 40, "intermediate",
                                 <<SkPython, SkDataAnalysis>>, 46, 49))
    ELSE IF \E keyword \in {KwData, KwMachineLearning, KwMl} :
                contains(keyword, lower(skill))
    THEN Append(resources,
                LearningResource(TitleMachineLearningSpecialization,
                                 "Coursera", UrlMlSpecialization, 80,
                                 "intermediate",
                                 <<SkMachineLearning, SkPython>>, 48, 79))
    ELSE Append(resources,
                LearningResource(IntroductionTo \o skill, "Udemy",
                                 UrlUdemyPrefix
                                     \o replace(lower(skill), " ", "-"),
                                 30, "beginner", <<skill>>, 45, 39))

\* One pass of the loop of _parse_learning_resources_from_text.
parse_append(resources, skill) ==
    IF contains(KwPython, lower(skill))
    THEN Append(resources,
                LearningResource(TitlePythonForDataScience, "Coursera",
                                 UrlPythonDataScience, 40, "intermediate",
                                 <<SkPython, SkDataAnalysis>>, 46, 49))
    ELSE IF contains(KwMachineLearning, lower(skill))
    THEN Append(resources,
                LearningResource(TitleMachineLearningSpecialization,
                                 "Coursera", UrlMlSpecialization, 80,
                                 "intermediate",
                                 <<SkMachineLearning, SkPython>>, 48, 79))
    ELSE resources

\* The fallback loop with the URL slug built from the skill as typed
\* (lower() left out).
fallback_append_slug_as_typed(fallback_resources, skill) ==
    IF contains(KwPython, lower(skill))
    THEN Append(fallback_resources,
                LearningResource(TitlePythonForEverybody, "Coursera",
                                 UrlPython, 40, "beginner",
                                 <<SkPython, SkProgramming>>, 48, 49))
    ELSE IF \E keyword \in {KwData, KwMachineLearning, KwMl} :
                contains(keyword, lower(skill))
    THEN Append(fallback_resources,
                LearningResource(TitleDataScienceFundamentals, "edX",
                                 UrlDataScience, 60, "intermediate",
                                 <<SkDataAnalysis, SkStatistics, SkPython>>,
                                 46, 99))
    ELSE Append(fallback_resources,
                LearningResource(IntroductionTo \o skill, "Udemy",
                                 UrlUdemyPrefix \o replace(skill, " ", "-"),
                                 30, "beginner", <<skill>>, 45, 39))

\* One pass of the loop of _get_fallback_learning_resources.
fallback_append(fallback_resources, skill) ==
    IF contains(KwPython, lower(skill))
    THEN Append(fallback_resources,
                LearningResource(TitlePythonForEverybody, "Coursera",
                                 UrlPython, 40, "beginner",
                                 <<SkPython, SkProgramming>>, 48, 49))
    ELSE IF \E keyword \in {KwData, KwMachineLearning, KwMl} :
                contains(keyword, lower(skill))
    THEN Append(fallback_resources,
                LearningResource(TitleDataScienceFundamentals, "edX",
                                 UrlDataScience, 60, "intermediate",
                                 <<SkDataAnalysis, SkStatistics, SkPython>>,
                                 46, 99))
    ELSE Append(fallback_resources,
                LearningResource(IntroductionTo \o skill, "Udemy",
                                 UrlUdemyPrefix
                                     \o replace(lower(skill), " ", "-"),
                                 30, "beginner", <<skill>>, 45, 39))

RECURSIVE fallback_loop(_, _)
fallback_loop(fallback_resources, skills) ==
    IF skills = <<>> THEN fallback_resources
    ELSE fallback_loop(fallback_append(fallback_resources, Head(skills)),
                       Tail(skills))

\* A fallback that recommends the Python course when it found nothing.
get_fallback_learning_resources_default(target_skills) ==
    LET found == fallback_loop(<<>>, slice(target_skills, FallbackLimit)) IN
    IF found # <<>> THEN found ELSE fallback_append(<<>>, SkPython)

\* _get_fallback_learning_resources(target_skills)
get_fallback_learning_resources(target_skills) ==
    fallback_loop(<<>>, slice(target_skills, FallbackLimit))

RECURSIVE parse_loop(_, _)
parse_loop(resources, skills) ==
    IF skills = <<>> THEN resources
    ELSE parse_loop(parse_append(resources, Head(skills)), Tail(skills))

\* _parse_learning_resources_from_text(text_response, target_skills)
parse_learning_resources_from_text(text_response, target_skills) ==
    LET resources == parse_loop(<<>>, slice(target_skills, ParseLimit)) IN
    IF resources # <<>> THEN resources
    ELSE get_fallback_learning_resources(target_skills)

\* The try block of generate_learning_path.
learning_try(result, target_skills) ==
    IF result.kind = "raises" THEN Raised("Exception")
    ELSE IF has_final_output(result)
    THEN LET text == final_output_value(result) IN
         IF text.status = "raised" THEN text
         ELSE Returned(List(
                parse_learning_resources_from_text(text.value, target_skills)))
    ELSE Returned(List(get_fallback_learning_resources(target_skills)))

\* The try/except of generate_learning_path, once portia.run has ended.
learning_outcome(result, target_skills) ==
    LET t == learning_try(result, target_skills) IN
    IF t.status = "raised"
    THEN Returned(List(get_fallback_learning_resources(target_skills)))
    ELSE t

----------------------------------------------------------------------------
(* create_career_roadmap *)

\* The milestone schedule both roadmap constructions write out.
Milestones ==
    <<[month |-> 3, milestone |-> "Complete fundamentals course"],
      [month |-> 6, milestone |-> "Build portfolio project"],
      [month |-> 12, milestone |-> "Gain practical experience"],
      [month |-> 18, milestone |-> "Apply for target roles"]>>

\* A fallback roadmap with the current and the target position exchanged.
get_fallback_career_roadmap_swapped(user_id, target_role) ==
    IF user_id \notin DOMAIN user_profiles THEN Raised("KeyError")
    ELSE LET profile == user_profiles[user_id].v
             roadmap_id == <<"fallback_roadmap", user_id, strftime(now)>>
         IN  Returned(CareerRoadmap(
                user_id, roadmap_id, target_role, profile.current_role, 18,
                Milestones,
                <<"Advanced skills", "Industry experience", "Leadership">>,
                <<>>,
                [demand |-> "High", salary_increase |-> "20-35%",
                 growth_rate |-> "12% annually"],
                <<"Competitive field", "Skill requirements",
                  "Market changes">>,
                now))

\* _get_fallback_career_roadmap: builds a roadmap and returns it.
get_fallback_career_roadmap(user_id, target_role) ==
    IF user_id \notin DOMAIN user_profiles THEN Raised("KeyError")
    ELSE LET profile == user_profiles[user_id].v
             roadmap_id == <<"fallback_roadmap", user_id, strftime(now)>>
         IN  Returned(CareerRoadmap(
                user_id, roadmap_id, profile.current_role, target_role, 18,
                Milestones,
                <<"Advanced skills", "Industry experience", "Leadership">>,
                <<>>,
                [demand |-> "High", salary_increase |-> "20-35%",
                 growth_rate |-> "12% annually"],
                <<"Competitive field", "Skill requirements",
                  "Market changes">>,
                now))

\* A create_career_roadmap that keeps the new roadmap as the only entry of
\* the roadmap store.
roadmap_try_fresh_store(user_id, target_role, result) ==
    IF result.kind = "raises"
    THEN [out |-> Raised("Exception"), roadmaps |-> career_roadmaps]
    ELSE IF has_final_output(result)
    THEN LET profile == user_profiles[user_id].v
             roadmap_id == <<"roadmap", user_id, strftime(now)>>
             roadmap_obj == CareerRoadmap(
                user_id, roadmap_id, profile.current_role, target_role, 18,
                Milestones,
                <<"Machine Learning", "Advanced Analytics", "Leadership">>,
                <<>>,
                [demand |-> "High", salary_increase |-> "25-40%",
                 growth_rate |-> "15% annually"],
                <<"Competitive field", "Continuous learning required">>,
                now)
         IN  [out |-> Returned(roadmap_obj),
              roadmaps |-> (roadmap_obj.v.roadmap_id :> roadmap_obj)]
    ELSE [out |-> get_fallback_career_roadmap(user_id, target_role),
          roadmaps |-> career_roadmaps]

\* A create_career_roadmap that files the roadmap under the user's id.
roadmap_try_keyed_by_user(user_id, target_role, result) ==
    IF result.kind = "raises"
    THEN [out |-> Raised("Exception"), roadmaps |-> career_roadmaps]
    ELSE IF has_final_output(result)
    THEN LET profile == user_profiles[user_id].v
             roadmap_id == <<"roadmap", user_id, strftime(now)>>
             roadmap_obj == CareerRoadmap(
                user_id, roadmap_id, profile.current_role, target_role, 18,
                Milestones,
                <<"Machine Learning", "Advanced Analytics", "Leadership">>,
                <<>>,
                [demand |-> "High", salary_increase |-> "25-40%",
                 growth_rate |-> "15% annually"],
                <<"Competitive field", "Continuous learning required">>,
                now)
         IN  [out |-> Returned(roadmap_obj),
              roadmaps |-> (user_id :> roadmap_obj) @@ career_roadmaps]
    ELSE [out |-> get_fallback_career_roadmap(user_id, target_role),
          roadmaps |-> career_roadmaps]

\* The try block of create_career_roadmap: the outcome and the roadmap store
\* it leaves.  The answer's value is never read.
roadmap_try(user_id, target_role, result) ==
    IF result.kind = "raises"
    THEN [out |-> Raised("Exception"), roadmaps |-> career_roadmaps]
    ELSE IF has_final_output(result)
    THEN LET profile == user_profiles[user_id].v
             roadmap_id == <<"roadmap", user_id, strftime(now)>>
             roadmap_obj == CareerRoadmap(
                user_id, roadmap_id, profile.current_role, target_role, 18,
                Milestones,
                <<"Machine Learning", "Advanced Analytics", "Leadership">>,
                <<>>,
                [demand |-> "High", salary_increase |-> "25-40%",
                 growth_rate |-> "15% annually"],
                <<"Competitive field", "Continuous learning required">>,
                now)
         IN  [out |-> Returned(roadmap_obj),
              roadmaps |-> (roadmap_obj.v.roadmap_id :> roadmap_obj)
                               @@ career_roadmaps]
    ELSE [out |-> get_fallback_career_roadmap(user_id, target_role),
          roadmaps |-> career_roadmaps]

\* The try/except of create_career_roadmap, once portia.run has ended.
roadmap_outcome(user_id, target_role, result) ==
    LET t == roadmap_try(user_id, target_role, result) IN
    IF t.out.status = "raised"
    THEN [out |-> get_fallback_career_roadmap(user_id, target_role),
          roadmaps |-> t.roadmaps]
    ELSE t

----------------------------------------------------------------------------
(* analyze_job_market *)

\* xs += ys (or xs.extend(ys)): the left operand itself grows.
list_extend(xs, ys) ==
    [result |-> xs \o ys, left |-> xs \o ys]

\* xs + ys on lists: the new list, and the left operand as it is afterwards.
list_add(xs, ys) ==
    [result |-> xs \o ys, left |-> xs]

\* A job market fallback that reports demand only once a profile is stored.
get_fallback_job_market_analysis_by_store(job_title, location, skills) ==
    LET required == list_add(skills, <<SkCommunication, SkProblemSolving>>) IN
    [out |-> Returned(Dict(
        [job_title |-> job_title,
         location |-> location,
         market_demand |-> IF user_profiles = <<>> THEN "Unknown" ELSE "High",
         average_salary |-> "$80,000 - $150,000",
         job_growth |-> "15% annually",
         top_companies |-> <<"Tech Companies", "Startups", "Enterprise">>,
         required_skills |-> required.result,
         emerging_trends |-> <<"AI/ML", "Remote Work", "Automation">>,
         remote_opportunities |-> "High (60% of roles)",
         competition_level |-> "Medium to High"])),
     skills |-> required.left]

\* _get_fallback_job_market_analysis: the mapping, and the caller's skills
\* list as the call leaves it.
get_fallback_job_market_analysis(job_title, location, skills) ==
    LET required == list_add(skills, <<SkCommunication, SkProblemSolving>>) IN
    [out |-> Returned(Dict(
        [job_title |-> job_title,
         location |-> location,
         market_demand |-> "High",
         average_salary |-> "$80,000 - $150,000",
         job_growth |-> "15% annually",
         top_companies |-> <<"Tech Companies", "Startups", "Enterprise">>,
         required_skills |-> required.result,
         emerging_trends |-> <<"AI/ML", "Remote Work", "Automation">>,
         remote_opportunities |-> "High (60% of roles)",
         competition_level |-> "Medium to High"])),
     skills |-> required.left]

\* The try/except of analyze_job_market, once portia.run has ended.
job_market_outcome(job_title, location, skills, result) ==
    LET fallback == get_fallback_job_market_analysis(job_title, location,
                                                     skills)
        t == structured_try(result, "JobMarketAnalysis", fallback.out)
    IN  IF t.status = "raised" \/ ~has_final_output(result)
        THEN fallback
        ELSE [out |-> t, skills |-> skills]

----------------------------------------------------------------------------
(* get_weekly_recommendations *)

\* A weekly fallback that leaves progress_tracking out.
get_fallback_weekly_recommendations_untracked(user_id) ==
    Returned(Dict(
        [learning_focus |-> "Machine Learning fundamentals",
         skill_practice |-> <<"Complete 2 Python coding challenges">>,
         career_development |-> <<"Update LinkedIn profile with new skills">>,
         networking_opportunities |-> <<"Join relevant LinkedIn groups">>]))

\* A weekly fallback that names the second it was built in.
get_fallback_weekly_recommendations_dated(user_id) ==
    Returned(Dict(
        [learning_focus |-> "Machine Learning fundamentals",
         skill_practice |-> <<"Complete 2 Python coding challenges">>,
         career_development |-> <<"Update LinkedIn profile with new skills">>,
         networking_opportunities |-> <<"Join relevant LinkedIn groups">>,
         progress_tracking |-> [generated_at |-> strftime(now)]]))

\* _get_fallback_weekly_recommendations
get_fallback_weekly_recommendations(user_id) ==
    Returned(Dict(
        [learning_focus |-> "Machine Learning fundamentals",
         skill_practice |->
            <<"Complete 2 Python coding challenges",
              "Practice data visualization with real datasets",
              "Review ML algorithms and concepts">>,
         career_development |->
            <<"Update LinkedIn profile with new skills",
              "Attend 1 industry webinar or meetup",
              "Research target companies and roles">>,
         networking_opportunities |->
            <<"Connect with 3 professionals in target field",
              "Join relevant LinkedIn groups",
              "Participate in online tech communities">>,
         progress_tracking |->
            [weekly_goals |-> "Complete 1 course module",
             skill_improvement |-> "Practice Python daily",
             career_progress |-> "Apply to 2 relevant positions"]]))

\* The try/except of get_weekly_recommendations, once portia.run has ended.
weekly_outcome(user_id, result) ==
    LET t == structured_try(result, "WeeklyRecommendations",
                            get_fallback_weekly_recommendations(user_id)) IN
    IF t.status = "raised" THEN get_fallback_weekly_recommendations(user_id)
    ELSE t

----------------------------------------------------------------------------
(* The inputs the callers draw from. *)

UserIds == {"u1", "u2"}

Roles == {"Data Analyst", "Engineer"}

TargetRoles == {"Data Scientist"}

JobTitles == {"X"}

Locations == {"Y"}

\* A Skill as the profile form builds it from a typed name.
form_skill(name) ==
    Skill([name |-> name, level |-> "intermediate", relevance_score |-> 80,
           years_experience |-> 10, target_level |-> "advanced"]).value

\* user_data as the profile form builds it.
form_user_data(user_id, current_role, skills) ==
    [user_id |-> user_id, name |-> "Ada", email |-> "ada@example.com",
     current_role |-> current_role, current_company |-> "Acme",
     career_stage |-> "mid_career", years_experience |-> 50,
     education_level |-> "Bachelor's", learning_style |-> "mixed",
     industry_preference |-> "technology",
     location_preference |-> "Remote",
     salary_expectations |-> <<80000, 120000>>,
     skills |-> skills, interests |-> <<>>, career_goals |-> <<>>]

\* user_data of create_user_profile: two profiles for one user id, one of
\* them with a skill, and one for another user id.
UserData ==
    {form_user_data("u1", "Data Analyst", <<>>),
     form_user_data("u1", "Engineer", <<form_skill("Python")>>),
     form_user_data("u2", "Data Analyst", <<>>)}

\* Skill names: with "python", with "machine learning", with "ml" only after
\* lower-casing, with "data", with "data" and "python", with no keyword.
SkillNames ==
    {SkPython, SkMachineLearning, SkHTML, SkBigData, SkDataWithPython,
     SkQuantumComputing}

\* Every list of skill names of at most MaxSkills entries.
SkillLists ==
    UNION {[1..n -> SkillNames] : n \in 0..MaxSkills}

\* The lists the facade as a whole is run with.
FewSkillLists ==
    {<<>>, <<SkPython>>, <<SkQuantumComputing, SkHTML>>}

----------------------------------------------------------------------------
(* The facade. *)

\* No call has been set aside yet.
NoEarlier ==
    [call |-> [op |-> "none"], profiles |-> <<>>, roadmaps |-> <<>>,
     result |-> [kind |-> "none", value |-> None], ret |-> NoCall]

\* st.session_state as the first run of the page script leaves it.
NoSession ==
    [current_user |-> None, assessment_results |-> None,
     learning_path |-> None, career_roadmap |-> None]

Init ==
    /\ user_profiles = <<>>
    /\ career_roadmaps = <<>>
    /\ now = 0
    /\ pc = "idle"
    /\ call = [op |-> "none"]
    /\ ret = NoCall
    /\ agent_calls = 0
    /\ agent_result = [kind |-> "none", value |-> None]
    /\ caller_skills = <<>>
    /\ created = <<>>
    /\ pre_profiles = <<>>
    /\ pre_roadmaps = <<>>
    /\ earlier = NoEarlier
    /\ session_state = NoSession
    /\ rendered = [shows |-> "", form |-> None]
    /\ produced_for = NoSession

\* A facade call begins: what it was called with and what the stores held.
Begin(c) ==
    /\ pc = "idle"
    /\ call' = c
    /\ agent_result' = [kind |-> "none", value |-> None]
    /\ pre_profiles' = user_profiles
    /\ pre_roadmaps' = career_roadmaps
    /\ UNCHANGED <<earlier, session>>

\* An operation that calls the agent without checking the user id first.
DelegateUnchecked(user_id) ==
    /\ ret' = Pending
    /\ pc' = "delegate"
    /\ agent_calls' = 1

\* An operation that, having found the user, waits for a signal that nothing
\* in the program sends.
CheckUserThenWait(user_id) ==
    IF user_id \notin DOMAIN user_profiles
    THEN /\ ret' = Raised("ValueError")
         /\ pc' = "idle"
         /\ agent_calls' = 0
    ELSE /\ ret' = Pending
         /\ pc' = "wait"
         /\ agent_calls' = 0

\* The user-existence check that opens an operation, then portia.run begins.
CheckUserThenDelegate(user_id) ==
    IF user_id \notin DOMAIN user_profiles
    THEN /\ ret' = Raised("ValueError")
         /\ pc' = "idle"
         /\ agent_calls' = 0
    ELSE /\ ret' = Pending
         /\ pc' = "delegate"
         /\ agent_calls' = 1

\* The clock advances.
Tick ==
    /\ now < MaxClock
    /\ now' = now + 1
    /\ UNCHANGED <<user_profiles, career_roadmaps, pc, call, ret,
                   agent_calls, agent_result, caller_skills, created,
                   pre_profiles, pre_roadmaps, earlier, session>>

\* create_user_profile that keeps the entry a user id already has
\* (setdefault instead of assignment).
create_user_profile_keep_first(user_data) ==
    /\ Len(created) < MaxCreates
    /\ Begin([op |-> "create_user_profile", user_data |-> user_data])
    /\ LET made == UserProfile(user_data, Len(created) + 1) IN
         IF made.status = "raised"
         THEN /\ ret' = made
              /\ UNCHANGED <<user_profiles, created>>
         ELSE LET profile == made.value IN
                /\ user_profiles' =
                       user_profiles @@ (profile.v.user_id :> profile)
                /\ created' = Append(created, profile)
                /\ ret' = Returned(profile)
    /\ agent_calls' = 0
    /\ caller_skills' = <<>>
    /\ UNCHANGED <<career_roadmaps, now, pc>>

\* create_user_profile that builds the profile without validating it
\* (model_construct instead of the constructor).
create_user_profile_unvalidated(user_data) ==
    /\ Len(created) < MaxCreates
    /\ Begin([op |-> "create_user_profile", user_data |-> user_data])
    /\ LET profile ==
               [type |-> "UserProfile",
                v |-> [k \in DOMAIN user_data \cup {"oid"} |->
                          IF k = "oid" THEN Len(created) + 1
                          ELSE user_data[k]]] IN
         /\ user_profiles' = (profile.v.user_id :> profile) @@ user_profiles
         /\ created' = Append(created, profile)
         /\ ret' = Returned(profile)
    /\ agent_calls' = 0
    /\ caller_skills' = <<>>
    /\ UNCHANGED <<career_roadmaps, now, pc>>

\* create_user_profile that starts from an empty store each time it
\* registers a profile.
create_user_profile_fresh_store(user_data) ==
    /\ Len(created) < MaxCreates
    /\ Begin([op |-> "create_user_profile", user_data |-> user_data])
    /\ LET made == UserProfile(user_data, Len(created) + 1) IN
         IF made.status = "raised"
         THEN /\ ret' = made
              /\ UNCHANGED <<user_profiles, created>>
         ELSE LET profile == made.value IN
                /\ user_profiles' = (profile.v.user_id :> profile)
                /\ created' = Append(created, profile)
                /\ ret' = Returned(profile)
    /\ agent_calls' = 0
    /\ caller_skills' = <<>>
    /\ UNCHANGED <<career_roadmaps, now, pc>>

\* The constructor raises before the assignment to the store is reached.
create_user_profile(user_data) ==
    /\ Len(created) < MaxCreates
    /\ Begin([op |-> "create_user_profile", user_data |-> user_data])
    /\ LET made == UserProfile(user_data, Len(created) + 1) IN
         IF made.status = "raised"
         THEN /\ ret' = made
              /\ UNCHANGED <<user_profiles, created>>
         ELSE LET profile == made.value IN
                /\ user_profiles' =
                       (profile.v.user_id :> profile) @@ user_profiles
                /\ created' = Append(created, profile)
                /\ ret' = Returned(profile)
    /\ agent_calls' = 0
    /\ caller_skills' = <<>>
    /\ UNCHANGED <<career_roadmaps, now, pc>>

assess_skills_and_goals(user_id) ==
    /\ Begin([op |-> "assess_skills_and_goals", user_id |-> user_id])
    /\ CheckUserThenDelegate(user_id)
    /\ caller_skills' = <<>>
    /\ UNCHANGED <<user_profiles, career_roadmaps, now, created>>

\* The rest of assess_skills_and_goals with one retry of a failed agent call.
assess_skills_and_goals_resolve_retry(result) ==
    /\ pc = "delegate"
    /\ agent_result' = result
    /\ call.op = "assess_skills_and_goals"
    /\ IF result.kind = "raises" /\ agent_calls < 2
       THEN /\ agent_calls' = agent_calls + 1
            /\ UNCHANGED <<ret, pc>>
       ELSE /\ ret' = assess_outcome(call.user_id, result)
            /\ pc' = "idle"
            /\ UNCHANGED agent_calls
    /\ UNCHANGED <<user_profiles, career_roadmaps, now, call,
                   caller_skills, created, pre_profiles, pre_roadmaps,
                   earlier, session>>

assess_skills_and_goals_resolve(result) ==
    /\ pc = "delegate"
    /\ agent_result' = result
    /\ call.op = "assess_skills_and_goals"
    /\ ret' = assess_outcome(call.user_id, result)
    /\ pc' = "idle"
    /\ UNCHANGED <<user_profiles, career_roadmaps, now, call, agent_calls,
                   caller_skills, created, pre_profiles, pre_roadmaps, earlier, session>>

generate_learning_path(user_id, target_skills) ==
    /\ Begin([op |-> "generate_learning_path", user_id |-> user_id,
              target_skills |-> target_skills])
    /\ CheckUserThenDelegate(user_id)
    /\ caller_skills' = <<>>
    /\ UNCHANGED <<user_profiles, career_roadmaps, now, created>>

generate_learning_path_resolve(result) ==
    /\ pc = "delegate"
    /\ agent_result' = result
    /\ call.op = "generate_learning_path"
    /\ ret' = learning_outcome(result, call.target_skills)
    /\ pc' = "idle"
    /\ UNCHANGED <<user_profiles, career_roadmaps, now, call, agent_calls,
                   caller_skills, created, pre_profiles, pre_roadmaps, earlier, session>>

create_career_roadmap(user_id, target_role) ==
    /\ Begin([op |-> "create_career_roadmap", user_id |-> user_id,
              target_role |-> target_role])
    /\ CheckUserThenDelegate(user_id)
    /\ caller_skills' = <<>>
    /\ UNCHANGED <<user_profiles, career_roadmaps, now, created>>

create_career_roadmap_resolve(result) ==
    /\ pc = "delegate"
    /\ agent_result' = result
    /\ call.op = "create_career_roadmap"
    /\ LET o == roadmap_outcome(call.user_id, call.target_role, result) IN
         /\ ret' = o.out
         /\ career_roadmaps' = o.roadmaps
    /\ pc' = "idle"
    /\ UNCHANGED <<user_profiles, now, call, agent_calls, caller_skills,
                   created, pre_profiles, pre_roadmaps, earlier, session>>

analyze_job_market(job_title, location, skills) ==
    /\ Begin([op |-> "analyze_job_market", job_title |-> job_title,
              location |-> location, skills |-> skills])
    /\ ret' = Pending
    /\ pc' = "delegate"
    /\ agent_calls' = 1
    /\ caller_skills' = skills
    /\ UNCHANGED <<user_profiles, career_roadmaps, now, created>>

analyze_job_market_resolve(result) ==
    /\ pc = "delegate"
    /\ agent_result' = result
    /\ call.op = "analyze_job_market"
    /\ LET o == job_market_outcome(call.job_title, call.location,
                                   caller_skills, result) IN
         /\ ret' = o.out
         /\ caller_skills' = o.skills
    /\ pc' = "idle"
    /\ UNCHANGED <<user_profiles, career_roadmaps, now, call, agent_calls,
                   created, pre_profiles, pre_roadmaps, earlier, session>>

get_weekly_recommendations(user_id) ==
    /\ Begin([op |-> "get_weekly_recommendations", user_id |-> user_id])
    /\ CheckUserThenDelegate(user_id)
    /\ caller_skills' = <<>>
    /\ UNCHANGED <<user_profiles, career_roadmaps, now, created>>

get_weekly_recommendations_resolve(result) ==
    /\ pc = "delegate"
    /\ agent_result' = result
    /\ call.op = "get_weekly_recommendations"
    /\ ret' = weekly_outcome(call.user_id, result)
    /\ pc' = "idle"
    /\ UNCHANGED <<user_profiles, career_roadmaps, now, call, agent_calls,
                   caller_skills, created, pre_profiles, pre_roadmaps, earlier, session>>

\* create_career_roadmap is called while the roadmap store holds fewer than
\* MaxRoadmaps roadmaps.
RoadmapWhileFew ==
    /\ Cardinality(DOMAIN career_roadmaps) < MaxRoadmaps
    /\ \E u \in UserIds, t \in TargetRoles : create_career_roadmap(u, t)

Next ==
    \/ Tick
    \/ \E d \in UserData : create_user_profile(d)
    \/ \E u \in UserIds : assess_skills_and_goals(u)
    \/ \E r \in AgentResults : assess_skills_and_goals_resolve(r)
    \/ \E u \in UserIds, s \in FewSkillLists : generate_learning_path(u, s)
    \/ \E r \in UnstructuredResults : generate_learning_path_resolve(r)
    \/ RoadmapWhileFew
    \/ \E r \in UnstructuredResults : create_career_roadmap_resolve(r)
    \/ \E j \in JobTitles, l \in Locations, s \in FewSkillLists :
          analyze_job_market(j, l, s)
    \/ \E r \in AgentResults : analyze_job_market_resolve(r)
    \/ \E u \in UserIds : get_weekly_recommendations(u)
    \/ \E r \in AgentResults : get_weekly_recommendations_resolve(r)

Spec == Init /\ [][Next]_vars

\* The learning-path operation alone: one profile is created, and the
\* operation is called once in a run with any skill list.
LearnUserData ==
    {form_user_data("u1", "Data Analyst", <<>>)}

LearnCreate ==
    /\ created = <<>>
    /\ \E d \in LearnUserData : create_user_profile(d)

LearnOnce ==
    /\ call.op # "generate_learning_path"
    /\ \E u \in UserIds, s \in SkillLists : generate_learning_path(u, s)

NextLearn ==
    \/ LearnCreate
    \/ LearnOnce
    \/ \E r \in UnstructuredResults : generate_learning_path_resolve(r)

SpecLearn == Init /\ [][NextLearn]_vars

\* The agent as it is when every call of it fails.
FailingResults ==
    {r \in AgentResults : r.kind = "raises"}

\* A call the agent failed has ended: it is set aside, with the stores it
\* ran against and what it returned, to compare later calls with.
Remember ==
    /\ pc = "idle"
    /\ earlier = NoEarlier
    /\ agent_result.kind = "raises"
    /\ earlier' = [call |-> call, profiles |-> pre_profiles,
                   roadmaps |-> pre_roadmaps, result |-> agent_result,
                   ret |-> ret]
    /\ UNCHANGED <<user_profiles, career_roadmaps, now, pc, call, ret,
                   agent_calls, agent_result, caller_skills, created,
                   pre_profiles, pre_roadmaps, session>>

\* The facade with an agent that fails on every call.
NextFailing ==
    \/ Tick
    \/ \E d \in UserData : create_user_profile(d)
    \/ \E u \in UserIds : assess_skills_and_goals(u)
    \/ \E r \in FailingResults : assess_skills_and_goals_resolve(r)
    \/ \E u \in UserIds, s \in FewSkillLists : generate_learning_path(u, s)
    \/ \E r \in FailingResults : generate_learning_path_resolve(r)
    \/ RoadmapWhileFew
    \/ \E r \in FailingResults : create_career_roadmap_resolve(r)
    \/ \E j \in JobTitles, l \in Locations, s \in FewSkillLists :
          analyze_job_market(j, l, s)
    \/ \E r \in FailingResults : analyze_job_market_resolve(r)
    \/ \E u \in UserIds : get_weekly_recommendations(u)
    \/ \E r \in FailingResults : get_weekly_recommendations_resolve(r)
    \/ Remember

SpecFailing == Init /\ [][NextFailing]_vars

\* A call that reached the agent has ended: it is set aside, with the stores
\* it ran against, how the agent call ended and what it returned.
RememberAnswered ==
    /\ pc = "idle"
    /\ earlier = NoEarlier
    /\ agent_result.kind # "none"
    /\ earlier' = [call |-> call, profiles |-> pre_profiles,
                   roadmaps |-> pre_roadmaps, result |-> agent_result,
                   ret |-> ret]
    /\ UNCHANGED <<user_profiles, career_roadmaps, now, pc, call, ret,
                   agent_calls, agent_result, caller_skills, created,
                   pre_profiles, pre_roadmaps, session>>

\* create_career_roadmap is called while the roadmap store holds at most
\* MaxRoadmaps roadmaps, so that a stored roadmap can be followed by another.
RoadmapWhileRoom ==
    /\ Cardinality(DOMAIN career_roadmaps) <= MaxRoadmaps
    /\ \E u \in UserIds, t \in TargetRoles : create_career_roadmap(u, t)

\* The two profiles roadmaps are asked for, in the order they are created.
RoadmapUserData ==
    <<form_user_data("u1", "Data Analyst", <<>>),
      form_user_data("u2", "Engineer", <<form_skill("Python")>>)>>

RoadmapCreate ==
    /\ Len(created) < Len(RoadmapUserData)
    /\ create_user_profile(RoadmapUserData[Len(created) + 1])

\* How the agent call of create_career_roadmap can end: it raises, its
\* result lacks the attributes, or it answers.
RoadmapResults ==
    {r \in UnstructuredResults :
        r.kind = "value" => r.value = Str("free text A")}

\* The operations on the roadmap store: two profiles are created, roadmaps
\* are asked for again and again as the clock advances, and one call is set
\* aside.
NextRoadmap ==
    \/ Tick
    \/ RoadmapCreate
    \/ RoadmapWhileRoom
    \/ \E r \in RoadmapResults : create_career_roadmap_resolve(r)
    \/ RememberAnswered

SpecRoadmap == Init /\ [][NextRoadmap]_vars

\* How the agent call of analyze_job_market can end: it raises, its result
\* lacks the attributes or the value, or it answers with an analysis or
\* with free text.
JobMarketResults ==
    {r \in AgentResults :
        r.kind = "value" =>
            r.value \in {JobMarketAnalysisInstance, Str("free text A")}}

\* analyze_job_market against stores that fill up: profiles and roadmaps
\* are created between the calls, and one call is set aside.
NextJobMarket ==
    \/ RoadmapCreate
    \/ RoadmapWhileFew
    \/ \E r \in RoadmapResults : create_career_roadmap_resolve(r)
    \/ \E j \in JobTitles, l \in Locations, s \in FewSkillLists :
          analyze_job_market(j, l, s)
    \/ \E r \in JobMarketResults : analyze_job_market_resolve(r)
    \/ RememberAnswered

SpecJobMarket == Init /\ [][NextJobMarket]_vars

\* portia.run returns or raises: the rest of the waiting operation runs.
AgentAnswers ==
    \/ \E r \in AgentResults : assess_skills_and_goals_resolve(r)
    \/ \E r \in UnstructuredResults : generate_learning_path_resolve(r)
    \/ \E r \in RoadmapResults : create_career_roadmap_resolve(r)
    \/ \E r \in JobMarketResults : analyze_job_market_resolve(r)
    \/ \E r \in AgentResults : get_weekly_recommendations_resolve(r)

\* The facade with an agent that answers every call in the end: two
\* profiles are created and the five operations are called in any order,
\* as the clock advances.
NextAnswering ==
    \/ Tick
    \/ RoadmapCreate
    \/ \E u \in UserIds : assess_skills_and_goals(u)
    \/ \E u \in UserIds, s \in FewSkillLists : generate_learning_path(u, s)
    \/ RoadmapWhileRoom
    \/ \E j \in JobTitles, l \in Locations, s \in FewSkillLists :
          analyze_job_market(j, l, s)
    \/ \E u \in UserIds : get_weekly_recommendations(u)
    \/ AgentAnswers

SpecAnswering == Init /\ [][NextAnswering]_vars /\ WF_vars(AgentAnswers)

\* The domain model on its own: every constructor is called with values
\* inside, on and outside the bounds of its fields, and create_user_profile
\* with user_data that validates and user_data that does not.

\* Scores in tenths: -0.1, 0, 5.5, 10 and 10.1.
Scores ==
    {-1, 0, 55, 100, 101}

Priorities ==
    0 .. 6

\* Ratings in tenths: -0.1, 0, 4.5, 5 and 5.1.
Ratings ==
    {-1, 0, 45, 50, 51}

\* Years in tenths: -1, 0 and 3.
Years ==
    {-10, 0, 30}

Hours ==
    {-10, 0, 40}

\* (min, max) pairs: in order, equal, and reversed.
SalaryPairs ==
    {<<80000, 120000>>, <<90000, 90000>>, <<120000, 80000>>}

SkillData ==
    {[name |-> "Python", level |-> "intermediate", relevance_score |-> s,
      years_experience |-> y, target_level |-> "advanced"] :
        s \in Scores, y \in Years}

InterestData ==
    {[topic |-> "AI", intensity |-> i, career_relevance |-> r] :
        i \in Scores, r \in Scores}

CareerGoalData ==
    {[title |-> "Lead", description |-> "Lead a team", priority |-> p] :
        p \in Priorities}

LearningResourceData ==
    {[title |-> "Course", platform |-> "Coursera",
      url |-> "https://coursera.org", duration_hours |-> h,
      difficulty |-> "beginner", rating |-> r] :
        h \in Hours, r \in Ratings}

JobOpportunityData ==
    {[title |-> "Data Scientist", company |-> "Acme", location |-> "Remote",
      salary_range |-> s, industry |-> "technology"] : s \in SalaryPairs}

\* data with one key left out.
without(data, name) ==
    [k \in DOMAIN data \ {name} |-> data[k]]

\* user_data that validates (one with the salary pair reversed), user_data
\* with a career stage that is no enumerator, and user_data without email.
WideUserData ==
    LET base == form_user_data("u1", "Data Analyst", <<>>) IN
    {base,
     form_user_data("u2", "Engineer", <<form_skill("Python")>>),
     [base EXCEPT !.salary_expectations = <<120000, 80000>>],
     [base EXCEPT !.career_stage = "wizard"],
     without(base, "email")}

\* A constructor of the domain model is called: the caller is handed what
\* it returns or raises.
construct_Skill(data) ==
    /\ Begin([op |-> "Skill", data |-> data])
    /\ ret' = Skill(data)
    /\ agent_calls' = 0
    /\ caller_skills' = <<>>
    /\ UNCHANGED <<user_profiles, career_roadmaps, now, pc, created>>

construct_Interest(data) ==
    /\ Begin([op |-> "Interest", data |-> data])
    /\ ret' = Interest(data)
    /\ agent_calls' = 0
    /\ caller_skills' = <<>>
    /\ UNCHANGED <<user_profiles, career_roadmaps, now, pc, created>>

construct_CareerGoal(data) ==
    /\ Begin([op |-> "CareerGoal", data |-> data])
    /\ ret' = CareerGoal(data)
    /\ agent_calls' = 0
    /\ caller_skills' = <<>>
    /\ UNCHANGED <<user_profiles, career_roadmaps, now, pc, created>>

construct_LearningResource(data) ==
    /\ Begin([op |-> "LearningResource", data |-> data])
    /\ ret' = LearningResourceFrom(data)
    /\ agent_calls' = 0
    /\ caller_skills' = <<>>
    /\ UNCHANGED <<user_profiles, career_roadmaps, now, pc, created>>

construct_JobOpportunity(data) ==
    /\ Begin([op |-> "JobOpportunity", data |-> data])
    /\ ret' = JobOpportunity(data)
    /\ agent_calls' = 0
    /\ caller_skills' = <<>>
    /\ UNCHANGED <<user_profiles, career_roadmaps, now, pc, created>>

NextModel ==
    \/ \E d \in SkillData : construct_Skill(d)
    \/ \E d \in InterestData : construct_Interest(d)
    \/ \E d \in CareerGoalData : construct_CareerGoal(d)
    \/ \E d \in LearningResourceData : construct_LearningResource(d)
    \/ \E d \in JobOpportunityData : construct_JobOpportunity(d)
    \/ \E d \in WideUserData : create_user_profile(d)

SpecModel == Init /\ [][NextModel]_vars

----------------------------------------------------------------------------
(* The web page, app.py: every interaction runs the page script once, for   *)
(* the page chosen in the sidebar and the widgets as the user left them.    *)

\* A text as the page shows it and the widgets it was shown for: the
\* profile form, where the run was a submission of it.
Shows(text, form) ==
    [shows |-> text, form |-> form]

Whitespace ==
    {" ", "\n"}

RECURSIVE lstrip(_)
lstrip(s) ==
    IF s # <<>> /\ Head(s) \in Whitespace THEN lstrip(Tail(s)) ELSE s

RECURSIVE rstrip(_)
rstrip(s) ==
    IF s # <<>> /\ s[Len(s)] \in Whitespace
    THEN rstrip(SubSeq(s, 1, Len(s) - 1))
    ELSE s

\* s.strip()
strip(s) ==
    rstrip(lstrip(s))

\* s.split(sep) for a one-character sep: the pieces, the empty ones too.
RECURSIVE split(_, _)
split(s, sep) ==
    IF \A i \in 1..Len(s) : s[i] # sep
    THEN <<s>>
    ELSE LET i == CHOOSE i \in 1..Len(s) :
                     s[i] = sep /\ \A j \in 1..(i - 1) : s[j] # sep
         IN  <<SubSeq(s, 1, i - 1)>> \o split(SubSeq(s, i + 1, Len(s)), sep)

\* The loop over the lines of the skills field: a Skill for every line that
\* is not blank.
RECURSIVE skills_of_lines(_)
skills_of_lines(lines) ==
    IF lines = <<>>
    THEN <<>>
    ELSE LET skill_name == strip(Head(lines)) IN
         (IF skill_name # <<>> THEN <<form_skill(skill_name)>> ELSE <<>>)
             \o skills_of_lines(Tail(lines))

\* skills_list, once the branch `if skills_input:` has run.
skills_list_of(skills_input) ==
    skills_of_lines(split(replace(skills_input, ",", "\n"), "\n"))

\* user_data as the submitted form builds it; the selectboxes and number
\* inputs are left at what they show first.
user_data_of(form, skills_list) ==
    [user_id |-> <<"user", replace(lower(form.name), " ", "_"),
                   strftime(now)>>,
     name |-> form.name, email |-> "",
     current_role |-> form.current_role, current_company |-> "",
     career_stage |-> "student", years_experience |-> 30,
     education_level |-> "High School", learning_style |-> "visual",
     industry_preference |-> "technology",
     location_preference |-> "",
     salary_expectations |-> <<60000, 120000>>,
     skills |-> skills_list, interests |-> <<>>,
     career_goals |->
        IF form.career_goal # ""
        THEN <<CareerGoal([title |-> form.career_goal, description |-> "",
                           priority |-> 1]).value>>
        ELSE <<>>]

\* The profile page, run without a submission or with one.
show_profile_creation(submitted, form) ==
    /\ pc = "idle"
    /\ Len(created) < MaxCreates
    /\ IF ~submitted
       THEN /\ rendered' = Shows("Create Your Career Profile", None)
            /\ UNCHANGED <<user_profiles, created, call, ret, agent_calls,
                           agent_result, caller_skills, pre_profiles,
                           pre_roadmaps, session_state>>
       ELSE IF form.name = <<>> \/ form.current_role = ""
       THEN /\ rendered' =
                 Shows("Please fill in at least your name and current role.",
                       form)
            /\ UNCHANGED <<user_profiles, created, call, ret, agent_calls,
                           agent_result, caller_skills, pre_profiles,
                           pre_roadmaps, session_state>>
       ELSE IF form.skills_input = <<>>
       THEN \* skills_list is read without ever having been assigned
            /\ rendered' = Shows("UnboundLocalError", form)
            /\ UNCHANGED <<user_profiles, created, call, ret, agent_calls,
                           agent_result, caller_skills, pre_profiles,
                           pre_roadmaps, session_state>>
       ELSE LET user_data ==
                    user_data_of(form, skills_list_of(form.skills_input))
                made == UserProfile(user_data, Len(created) + 1)
            IN  /\ call' = [op |-> "create_user_profile",
                            user_data |-> user_data]
                /\ agent_result' = [kind |-> "none", value |-> None]
                /\ pre_profiles' = user_profiles
                /\ pre_roadmaps' = career_roadmaps
                /\ agent_calls' = 0
                /\ caller_skills' = <<>>
                /\ ret' = made
                /\ IF made.status = "raised"
                   THEN /\ rendered' = Shows("Error creating profile", form)
                        /\ UNCHANGED <<user_profiles, created, session_state>>
                   ELSE LET profile == made.value IN
                        /\ user_profiles' =
                               (profile.v.user_id :> profile) @@ user_profiles
                        /\ created' = Append(created, profile)
                        /\ session_state' =
                               [session_state EXCEPT !.current_user = profile]
                        /\ rendered' =
                               Shows("Profile created successfully", form)
    /\ UNCHANGED <<career_roadmaps, now, pc, earlier, produced_for>>

\* What the user can have typed into the profile form: a name (none, or two
\* that give one user id), a current role, the skills field (empty, blank,
\* one skill, two) and, in one form, a career goal.
FormNames ==
    {<<>>, <<"A", " ", "B">>, <<"a", "_", "b">>}

FormSkills ==
    {<<>>, <<" ">>, <<"R">>, <<"R", ",", " ", "C">>}

Forms ==
    {[name |-> n, current_role |-> r, skills_input |-> s, career_goal |-> ""] :
        n \in FormNames, r \in {"", "Data Analyst"}, s \in FormSkills}
    \cup {[name |-> <<"C">>, current_role |-> "Engineer",
           skills_input |-> <<"R">>, career_goal |-> "Lead"]}

\* The form as it is before the user has typed.
BlankForm ==
    [name |-> <<>>, current_role |-> "", skills_input |-> <<>>,
     career_goal |-> ""]

\* The profile page on its own, as the clock advances.
NextProfileForm ==
    \/ Tick
    \/ show_profile_creation(FALSE, BlankForm)
    \/ \E form \in Forms : show_profile_creation(TRUE, form)

SpecProfileForm == Init /\ [][NextProfileForm]_vars

\* "Data Science"
SkDataScience ==
    <<"D", "a", "t", "a", " ", "S", "c", "i", "e", "n", "c", "e">>

\* "Leadership"
SkLeadership ==
    <<"L", "e", "a", "d", "e", "r", "s", "h", "i", "p">>

\* target_skills of the dashboard's learning path button.
DashboardSkills ==
    <<SkMachineLearning, SkDataScience, SkLeadership>>

\* A run that only puts something on the page.
RenderOnly(text) ==
    /\ rendered' = Shows(text, None)
    /\ UNCHANGED <<user_profiles, career_roadmaps, now, pc, call, ret,
                   agent_calls, agent_result, caller_skills, created,
                   pre_profiles, pre_roadmaps, earlier, session_state,
                   produced_for>>

\* The dashboard, run with one of its quick-action buttons pressed or none.
show_dashboard(button) ==
    /\ pc = "idle"
    /\ IF session_state.current_user = None
       THEN RenderOnly("Welcome! Please create a profile to get started.")
       ELSE LET user == session_state.current_user.v IN
            CASE button = "Assess Skills" ->
                     assess_skills_and_goals(user.user_id)
              [] button = "Generate Learning Path" ->
                     generate_learning_path(user.user_id, DashboardSkills)
              [] button = "Create Career Roadmap" ->
                     create_career_roadmap(user.user_id, "Data Scientist")
              [] OTHER -> RenderOnly("Your Career Dashboard")

DashboardButtons ==
    {"none", "Assess Skills", "Generate Learning Path",
     "Create Career Roadmap"}

\* The skills assessment page, run with its button pressed or not.
show_skills_assessment(pressed) ==
    /\ pc = "idle"
    /\ IF session_state.current_user = None
       THEN RenderOnly("Please create a profile first to assess skills.")
       ELSE IF pressed
       THEN assess_skills_and_goals(session_state.current_user.v.user_id)
       ELSE RenderOnly("Skills Assessment & Analysis")

\* The run goes on once assess_skills_and_goals has returned or raised.
assessment_results_set(result) ==
    /\ pc = "delegate"
    /\ call.op = "assess_skills_and_goals"
    /\ agent_result' = result
    /\ LET assessment == assess_outcome(call.user_id, result) IN
         /\ ret' = assessment
         /\ IF assessment.status = "returned"
            THEN /\ session_state' =
                        [session_state EXCEPT
                            !.assessment_results = assessment.value]
                 /\ produced_for' =
                        [produced_for EXCEPT
                            !.assessment_results = call.user_id]
                 /\ rendered' = Shows("Skills assessment completed!", None)
            ELSE /\ rendered' = Shows("Assessment failed", None)
                 /\ UNCHANGED <<session_state, produced_for>>
    /\ pc' = "idle"
    /\ UNCHANGED <<user_profiles, career_roadmaps, now, call, agent_calls,
                   caller_skills, created, pre_profiles, pre_roadmaps,
                   earlier>>

\* The learning path page, run with its button pressed or not.
show_learning_path(pressed, target_skills) ==
    /\ pc = "idle"
    /\ IF session_state.current_user = None
       THEN RenderOnly(
                "Please create a profile first to generate learning paths.")
       ELSE IF pressed /\ target_skills # <<>>
       THEN generate_learning_path(session_state.current_user.v.user_id,
                                   target_skills)
       ELSE IF pressed
       THEN RenderOnly("Please select at least one target skill.")
       ELSE RenderOnly("Personalized Learning Path")

\* The run goes on once generate_learning_path has returned or raised.
learning_path_set(result) ==
    /\ pc = "delegate"
    /\ call.op = "generate_learning_path"
    /\ agent_result' = result
    /\ LET learning_path == learning_outcome(result, call.target_skills) IN
         /\ ret' = learning_path
         /\ IF learning_path.status = "returned"
            THEN /\ session_state' =
                        [session_state EXCEPT
                            !.learning_path = learning_path.value]
                 /\ produced_for' =
                        [produced_for EXCEPT !.learning_path = call.user_id]
                 /\ rendered' = Shows("Learning path generated", None)
            ELSE /\ rendered' = Shows("Learning path generation failed", None)
                 /\ UNCHANGED <<session_state, produced_for>>
    /\ pc' = "idle"
    /\ UNCHANGED <<user_profiles, career_roadmaps, now, call, agent_calls,
                   caller_skills, created, pre_profiles, pre_roadmaps,
                   earlier>>

\* The career roadmap page, run with its form submitted or not.
show_career_roadmap(submitted, target_role) ==
    /\ pc = "idle"
    /\ IF session_state.current_user = None
       THEN RenderOnly(
                "Please create a profile first to create career roadmaps.")
       ELSE IF submitted /\ target_role # ""
       THEN create_career_roadmap(session_state.current_user.v.user_id,
                                  target_role)
       ELSE IF submitted
       THEN RenderOnly("Please specify a target role.")
       ELSE RenderOnly("Career Roadmap Creation")

\* The run goes on once create_career_roadmap has returned or raised.
career_roadmap_set(result) ==
    /\ pc = "delegate"
    /\ call.op = "create_career_roadmap"
    /\ agent_result' = result
    /\ LET o == roadmap_outcome(call.user_id, call.target_role, result) IN
         /\ ret' = o.out
         /\ career_roadmaps' = o.roadmaps
         /\ IF o.out.status = "returned"
            THEN /\ session_state' =
                        [session_state EXCEPT !.career_roadmap = o.out.value]
                 /\ produced_for' =
                        [produced_for EXCEPT !.career_roadmap = call.user_id]
                 /\ rendered' =
                        Shows("Career roadmap created successfully!", None)
            ELSE /\ rendered' = Shows("Roadmap creation failed", None)
                 /\ UNCHANGED <<session_state, produced_for>>
    /\ pc' = "idle"
    /\ UNCHANGED <<user_profiles, now, call, agent_calls, caller_skills,
                   created, pre_profiles, pre_roadmaps, earlier>>

\* [skill.name for skill in user.skills]
skill_names(skills) ==
    [i \in 1..Len(skills) |-> skills[i].v.name]

\* The job market page, run with its form submitted or not; the skills
\* filter is left at what it shows first.
show_job_market(submitted, job_title, location) ==
    /\ pc = "idle"
    /\ IF session_state.current_user = None
       THEN RenderOnly("Please create a profile first to analyze job markets.")
       ELSE LET user == session_state.current_user.v
                selected_skills ==
                    IF user.skills # <<>>
                    THEN slice(skill_names(user.skills), 5)
                    ELSE <<SkPython, SkDataAnalysis, SkMachineLearning>>
            IN  IF submitted /\ job_title # "" /\ location # ""
                THEN analyze_job_market(job_title, location, selected_skills)
                ELSE IF submitted
                THEN RenderOnly("Please specify job title and location.")
                ELSE RenderOnly("Job Market Analysis")

\* The run goes on once analyze_job_market has returned or raised; what it
\* returned is shown and not kept.
job_market_shown(result) ==
    /\ pc = "delegate"
    /\ call.op = "analyze_job_market"
    /\ agent_result' = result
    /\ LET o == job_market_outcome(call.job_title, call.location,
                                   caller_skills, result) IN
         /\ ret' = o.out
         /\ caller_skills' = o.skills
         /\ rendered' =
                IF o.out.status = "returned"
                THEN Shows("Job market analysis completed!", None)
                ELSE Shows("Job market analysis failed", None)
    /\ pc' = "idle"
    /\ UNCHANGED <<user_profiles, career_roadmaps, now, call, agent_calls,
                   created, pre_profiles, pre_roadmaps, earlier,
                   session_state, produced_for>>

\* The analytics page.
show_analytics ==
    /\ pc = "idle"
    /\ IF session_state.current_user = None
       THEN RenderOnly("Please create a profile first to view analytics.")
       ELSE RenderOnly("Career Analytics & Insights")

\* A settings page whose button puts a new agent into the session and
\* leaves the four results.
show_settings_new_agent(clear) ==
    /\ pc = "idle"
    /\ IF clear
       THEN /\ user_profiles' = <<>>
            /\ career_roadmaps' = <<>>
            /\ rendered' = Shows("All data cleared!", None)
            /\ UNCHANGED <<now, pc, call, ret, agent_calls, agent_result,
                           caller_skills, created, pre_profiles,
                           pre_roadmaps, earlier, session_state,
                           produced_for>>
       ELSE RenderOnly("Settings & Configuration")

\* A settings page whose button unsets current_user alone.
show_settings_keep_results(clear) ==
    /\ pc = "idle"
    /\ IF clear
       THEN /\ session_state' = [session_state EXCEPT !.current_user = None]
            /\ rendered' = Shows("All data cleared!", None)
            /\ UNCHANGED <<user_profiles, career_roadmaps, now, pc, call,
                           ret, agent_calls, agent_result, caller_skills,
                           created, pre_profiles, pre_roadmaps, earlier,
                           produced_for>>
       ELSE RenderOnly("Settings & Configuration")

\* The settings page, run with "Clear All Data" pressed or not.
show_settings(clear) ==
    /\ pc = "idle"
    /\ IF clear
       THEN /\ session_state' = NoSession
            /\ produced_for' = NoSession
            /\ rendered' = Shows("All data cleared!", None)
            /\ UNCHANGED <<user_profiles, career_roadmaps, now, pc, call,
                           ret, agent_calls, agent_result, caller_skills,
                           created, pre_profiles, pre_roadmaps, earlier>>
       ELSE RenderOnly("Settings & Configuration")

\* The forms submitted in a session: two users, and a form without a role.
SessionForms ==
    {[name |-> <<"A", " ", "B">>, current_role |-> "Data Analyst",
      skills_input |-> <<"R">>, career_goal |-> ""],
     [name |-> <<"C">>, current_role |-> "Engineer",
      skills_input |-> <<" ">>, career_goal |-> "Lead"],
     [name |-> <<"C">>, current_role |-> "",
      skills_input |-> <<"R">>, career_goal |-> ""]}

\* How the agent call behind a page can end: it raises, or it answers with
\* free text.
SessionResults ==
    {r \in AgentResults :
        /\ r.kind \in {"raises", "value"}
        /\ r.kind = "value" => r.value = Str("free text A")}

\* One session of the web page: pages are visited, forms submitted and
\* buttons pressed in any order. The agent answers or fails behind the
\* assessment and the roadmap, and fails behind the other two pages.
NextSession ==
    \/ \E form \in SessionForms : show_profile_creation(TRUE, form)
    \/ \E button \in DashboardButtons : show_dashboard(button)
    \/ \E pressed \in BOOLEAN : show_skills_assessment(pressed)
    \/ \E r \in SessionResults : assessment_results_set(r)
    \/ \E pressed \in BOOLEAN, s \in {<<>>, DashboardSkills} :
          show_learning_path(pressed, s)
    \/ \E r \in FailingResults : learning_path_set(r)
    \/ \E submitted \in BOOLEAN, t \in {"", "Data Scientist"} :
          show_career_roadmap(submitted, t)
    \/ \E r \in SessionResults : career_roadmap_set(r)
    \/ \E submitted \in BOOLEAN, l \in {"", "Y"} :
          show_job_market(submitted, "X", l)
    \/ \E r \in FailingResults : job_market_shown(r)
    \/ show_analytics
    \/ \E clear \in BOOLEAN : show_settings(clear)

SpecSession == Init /\ [][NextSession]_vars

----------------------------------------------------------------------------
(* The claims. *)

Min(a, b) == IF a < b THEN a ELSE b

Max(S) == CHOOSE x \in S : \A y \in S : y <= x

\* The call named op has ended (returned or raised).
Ended(op) ==
    /\ call.op = op
    /\ pc = "idle"

\* The call was made with a user id the profile store held.
Registered ==
    call.user_id \in DOMAIN pre_profiles

AssessmentKeys ==
    {"skill_gaps", "career_recommendations", "learning_priorities",
     "timeline_suggestions", "risk_factors", "mitigation_strategies"}

\* value is a mapping with all six assessment keys.
HasAssessmentKeys(value) ==
    /\ value.type = "dict"
    /\ AssessmentKeys \subseteq DOMAIN value.v

\* C1: when the agent call raises, each of the five advisory operations
\* returns its own fallback payload to the caller and raises nothing.
C1_FallbackOnAgentFailure ==
    (pc = "idle" /\ agent_result.kind = "raises") =>
        /\ ret.status = "returned"
        /\ call.op = "assess_skills_and_goals" =>
              ret = get_fallback_assessment(call.user_id)
        /\ call.op = "generate_learning_path" =>
              ret = Returned(List(
                        get_fallback_learning_resources(call.target_skills)))
        /\ call.op = "create_career_roadmap" =>
              /\ ret.value.type = "CareerRoadmap"
              /\ ret.value.v.roadmap_id =
                    <<"fallback_roadmap", call.user_id,
                      strftime(ret.value.v.created_at)>>
              /\ ret.value.v.skill_gaps =
                    <<"Advanced skills", "Industry experience", "Leadership">>
              /\ ret.value.v.market_analysis.salary_increase = "20-35%"
        /\ call.op = "analyze_job_market" =>
              ret = get_fallback_job_market_analysis(
                        call.job_title, call.location, call.skills).out
        /\ call.op = "get_weekly_recommendations" =>
              ret = get_fallback_weekly_recommendations(call.user_id)

\* C1 witness: the agent call of create_career_roadmap raised and the
\* caller holds a returned roadmap.
C1_Witness ==
    /\ Ended("create_career_roadmap")
    /\ agent_result.kind = "raises"
    /\ ret.status = "returned"

\* C2 as stated: on a registered id assess_skills_and_goals returns a mapping
\* with all six keys for every outcome of the agent call, with the literal
\* fallback values when the agent call raises.
C2_SixKeysForEveryOutcome ==
    (Ended("assess_skills_and_goals") /\ Registered) =>
        /\ ret.status = "returned"
        /\ HasAssessmentKeys(ret.value)
        /\ agent_result.kind = "raises" =>
              /\ ret.value.v.skill_gaps =
                    <<"Machine Learning", "Cloud Computing", "Leadership">>
              /\ ret.value.v.timeline_suggestions =
                    "6-18 months for skill development"

\* C2 amended: on a registered id assess_skills_and_goals returns a mapping
\* with all six keys when the agent call raises, returns a result without
\* the expected attributes or without a value, or returns a SkillAssessment;
\* a value of any other shape is returned unchanged.  When the agent call
\* raises the literal fallback values are returned.
C2_SixKeysUnlessPassedThrough ==
    (Ended("assess_skills_and_goals") /\ Registered) =>
        /\ ret.status = "returned"
        /\ IF agent_result.kind = "value"
              /\ agent_result.value.type # "SkillAssessment"
           THEN ret.value = agent_result.value
           ELSE HasAssessmentKeys(ret.value)
        /\ agent_result.kind = "raises" =>
              /\ ret.value.v.skill_gaps =
                    <<"Machine Learning", "Cloud Computing", "Leadership">>
              /\ ret.value.v.timeline_suggestions =
                    "6-18 months for skill development"

\* C2 witness: the agent call raised and the fallback mapping came back.
C2_Witness ==
    /\ Ended("assess_skills_and_goals")
    /\ agent_result.kind = "raises"
    /\ ret.status = "returned"
    /\ HasAssessmentKeys(ret.value)

\* C3: a profile-based operation called with a user id that is no key of
\* the profile store raises the not-found error, calls the agent not once,
\* and leaves both stores as they were.
C3_NotFound ==
    (/\ call.op \in {"assess_skills_and_goals", "generate_learning_path",
                     "create_career_roadmap", "get_weekly_recommendations"}
     /\ ~Registered) =>
        /\ pc = "idle"
        /\ ret = Raised("ValueError")
        /\ agent_calls = 0
        /\ agent_result.kind = "none"
        /\ user_profiles = pre_profiles
        /\ career_roadmaps = pre_roadmaps

\* C3 witness: create_career_roadmap raised for an unknown user id while
\* the store held another profile.
C3_Witness ==
    /\ call.op = "create_career_roadmap"
    /\ ~Registered
    /\ ret.status = "raised"
    /\ DOMAIN pre_profiles # {}

\* C4: the store maps the user id of a returned profile to that profile;
\* after any sequence of create_user_profile calls each user id maps to the
\* profile of the latest call with that id, and no key leads to a profile
\* an earlier call with the same id created.
C4_LastWriteWins ==
    /\ (call.op = "create_user_profile" /\ ret.status = "returned") =>
          /\ ret.value.v.user_id \in DOMAIN user_profiles
          /\ user_profiles[ret.value.v.user_id] = ret.value
    /\ \A u \in UserIds :
          LET calls == {i \in 1..Len(created) : created[i].v.user_id = u} IN
          IF calls = {} THEN u \notin DOMAIN user_profiles
          ELSE /\ u \in DOMAIN user_profiles
               /\ user_profiles[u] = created[Max(calls)]
    /\ \A i \in 1..Len(created) :
          (\E j \in (i + 1)..Len(created) :
                created[j].v.user_id = created[i].v.user_id) =>
              \A u \in DOMAIN user_profiles : user_profiles[u] # created[i]

\* C4 witness: two profiles with different roles were created with one id.
C4_Witness ==
    /\ Len(created) = 2
    /\ created[1].v.user_id = created[2].v.user_id
    /\ created[1].v.current_role # created[2].v.current_role
    /\ call.op = "create_user_profile"

\* C5: on a registered id create_career_roadmap returns a roadmap of 18
\* months with the milestones at months 3, 6, 12, 18, for the user id, the
\* profile's current role and the target role it was called with, whatever
\* the agent call did.
C5_FixedRoadmap ==
    (Ended("create_career_roadmap") /\ Registered) =>
        /\ ret.status = "returned"
        /\ ret.value.type = "CareerRoadmap"
        /\ ret.value.v.timeline_months = 18
        /\ [i \in 1..Len(ret.value.v.milestones) |->
                ret.value.v.milestones[i].month] = <<3, 6, 12, 18>>
        /\ ret.value.v.user_id = call.user_id
        /\ ret.value.v.current_position =
              pre_profiles[call.user_id].v.current_role
        /\ ret.value.v.target_position = call.target_role

\* C5 witness: a roadmap came back after the agent answered, for a profile
\* whose role is not the first one drawn.
C5_Witness ==
    /\ Ended("create_career_roadmap")
    /\ agent_result.kind = "value"
    /\ ret.status = "returned"
    /\ ret.value.v.current_position = "Engineer"

\* s ends with suffix
EndsWith(s, suffix) ==
    /\ Len(suffix) <= Len(s)
    /\ SubSeq(s, Len(s) - Len(suffix) + 1, Len(s)) = suffix

\* The lower-cased skill holds one of the keywords "data", "machine
\* learning", "ml".
HasDataKeyword(skill) ==
    \/ contains(KwData, lower(skill))
    \/ contains(KwMachineLearning, lower(skill))
    \/ contains(KwMl, lower(skill))

\* resource is the one the fallback table gives for skill.
IsFallbackResourceFor(resource, skill) ==
    IF contains(KwPython, lower(skill))
    THEN /\ resource.title = TitlePythonForEverybody
         /\ resource.platform = "Coursera"
         /\ resource.duration_hours = 40
         /\ resource.cost = 49
    ELSE IF HasDataKeyword(skill)
    THEN resource.title = TitleDataScienceFundamentals
    ELSE /\ resource.title = IntroductionTo \o skill
         /\ EndsWith(resource.url, replace(lower(skill), " ", "-"))
         /\ resource.skills_covered = <<skill>>

\* resources holds, in order, the fallback resource of each of the first
\* three skills.
IsFallbackListFor(resources, skills) ==
    /\ Len(resources) = Min(3, Len(skills))
    /\ \A i \in 1..Len(resources) :
          IsFallbackResourceFor(resources[i], skills[i])

\* C6: with a failing agent generate_learning_path returns, in input order,
\* one resource for each of the first three skills: "Python for Everybody"
\* for a skill with "python", else "Data Science Fundamentals" for one with
\* "data", "machine learning" or "ml", else "Introduction to <skill>" with
\* the hyphenated lower-cased skill ending its URL.
C6_FallbackLearningPath ==
    (Ended("generate_learning_path") /\ agent_result.kind = "raises") =>
        /\ ret.status = "returned"
        /\ ret.value.type = "list"
        /\ IsFallbackListFor(ret.value.v, call.target_skills)

\* C6 witness: the agent call raised for four skills, the first a generic
\* one with a space and an upper-case letter, the second with "python".
C6_Witness ==
    /\ Ended("generate_learning_path")
    /\ agent_result.kind = "raises"
    /\ ret.status = "returned"
    /\ Len(call.target_skills) = 4
    /\ call.target_skills[1] = SkQuantumComputing
    /\ call.target_skills[2] = SkPython
    /\ call.target_skills[3] = SkHTML

\* resource is in the class the keyword table names for skill: a Python
\* resource, a data-science resource, or the generic introduction.
IsTableResourceFor(resource, skill) ==
    IF contains(KwPython, lower(skill))
    THEN resource.title \in {TitlePythonForDataScience,
                             TitlePythonForEverybody}
    ELSE IF HasDataKeyword(skill)
    THEN resource.title \in {TitleMachineLearningSpecialization,
                             TitleDataScienceFundamentals}
    ELSE resource.title = IntroductionTo \o skill

\* C7 as stated: when the agent call returns a value, each of the first
\* three skills yields one resource by the keyword table, so the result has
\* min(3, number of skills) entries.
C7_OneResourcePerSkill ==
    (Ended("generate_learning_path") /\ agent_result.kind = "value") =>
        /\ ret.status = "returned"
        /\ Len(ret.value.v) = Min(3, Len(call.target_skills))
        /\ \A i \in 1..Len(ret.value.v) :
              IsTableResourceFor(ret.value.v[i], call.target_skills[i])

\* The first three skills that hold "python" or "machine learning".
ParsedSkills(skills) ==
    LET Matches(skill) ==
            \/ contains(KwPython, lower(skill))
            \/ contains(KwMachineLearning, lower(skill))
    IN  SelectSeq(slice(skills, 3), Matches)

\* C7 amended: when the agent call returns a value, only those of the first
\* three skills that hold "python" or "machine learning" yield a resource
\* ("Python for Data Science", else "Machine Learning Specialization"), in
\* order; when none does, the fallback list of C6 is returned.  The result
\* has at most min(3, number of skills) entries and is the same for every
\* text of the answer.
C7_ParsedLearningPath ==
    (Ended("generate_learning_path") /\ agent_result.kind = "value") =>
        /\ ret.status = "returned"
        /\ ret.value.type = "list"
        /\ Len(ret.value.v) <= Min(3, Len(call.target_skills))
        /\ LET parsed == ParsedSkills(call.target_skills) IN
           IF parsed = <<>>
           THEN IsFallbackListFor(ret.value.v, call.target_skills)
           ELSE /\ Len(ret.value.v) = Len(parsed)
                /\ \A i \in 1..Len(parsed) :
                      ret.value.v[i].title =
                          IF contains(KwPython, lower(parsed[i]))
                          THEN TitlePythonForDataScience
                          ELSE TitleMachineLearningSpecialization

\* C7 witness: the agent answered for three skills of which only the last
\* holds a parsed keyword, and one resource came back.
C7_Witness ==
    /\ Ended("generate_learning_path")
    /\ agent_result.kind = "value"
    /\ agent_result.value.type = "str"
    /\ Len(call.target_skills) = 3
    /\ call.target_skills[1] = SkBigData
    /\ call.target_skills[3] = SkMachineLearning
    /\ Len(ret.value.v) = 1

\* resource is what either loop makes of skill.
DerivedFrom(resource, skill) ==
    \/ <<resource>> = parse_append(<<>>, skill)
    \/ <<resource>> = fallback_append(<<>>, skill)

\* C8: generate_learning_path returns at most 3 resources whatever the
\* skill list and the agent call's outcome, in the order of the skills they
\* come from, and the skills after the third change nothing.
C8_AtMostThreeInOrder ==
    (Ended("generate_learning_path") /\ ret.status = "returned") =>
        /\ Len(ret.value.v) <= 3
        /\ \E from \in [1..Len(ret.value.v) ->
                          1..Min(3, Len(call.target_skills))] :
              /\ \A i, j \in DOMAIN from : i < j => from[i] < from[j]
              /\ \A i \in DOMAIN from :
                    DerivedFrom(ret.value.v[i], call.target_skills[from[i]])
        /\ ret = learning_outcome(agent_result,
                                  SubSeq(call.target_skills, 1,
                                         Min(3, Len(call.target_skills))))

\* C8 witness: four skills went in, the fourth with a keyword, and three
\* resources came back.
C8_Witness ==
    /\ Ended("generate_learning_path")
    /\ ret.status = "returned"
    /\ Len(call.target_skills) = 4
    /\ call.target_skills[4] = SkPython
    /\ call.target_skills[1] # SkPython
    /\ Len(ret.value.v) = 3

\* C9: on a registered id and an empty skill list generate_learning_path
\* returns the empty list and raises nothing, whatever the agent call did.
C9_EmptySkillList ==
    (/\ Ended("generate_learning_path")
     /\ Registered
     /\ call.target_skills = <<>>) =>
        ret = Returned(List(<<>>))

\* C9 witness: the agent answered a call with no skills.
C9_Witness ==
    /\ Ended("generate_learning_path")
    /\ Registered
    /\ call.target_skills = <<>>
    /\ agent_result.kind = "value"
    /\ ret.status = "returned"

\* C10: with a failing agent analyze_job_market returns the job title and
\* the location it was called with and, as required_skills, the caller's
\* skills followed by "Communication" and "Problem Solving"; the caller's
\* list is as it was.
C10_FallbackJobMarket ==
    (Ended("analyze_job_market") /\ agent_result.kind = "raises") =>
        /\ ret.status = "returned"
        /\ ret.value.type = "dict"
        /\ ret.value.v.job_title = call.job_title
        /\ ret.value.v.location = call.location
        /\ ret.value.v.required_skills =
              call.skills \o <<SkCommunication, SkProblemSolving>>
        /\ caller_skills = call.skills

\* C10 witness: the agent call raised for a list of two skills.
C10_Witness ==
    /\ Ended("analyze_job_market")
    /\ agent_result.kind = "raises"
    /\ ret.status = "returned"
    /\ Len(call.skills) = 2

WeeklyKeys ==
    {"learning_focus", "skill_practice", "career_development",
     "networking_opportunities", "progress_tracking"}

JobMarketKeys ==
    {"job_title", "location", "market_demand", "average_salary",
     "job_growth", "top_companies", "required_skills", "emerging_trends",
     "remote_opportunities", "competition_level"}

\* value is a mapping with every key of keys.
HasKeys(value, keys) ==
    /\ value.type = "dict"
    /\ keys \subseteq DOMAIN value.v

\* C11 as stated: get_weekly_recommendations on a registered id returns a
\* mapping with its five keys, and analyze_job_market a mapping with its ten
\* keys, for every outcome of the agent call.
C11_KeysForEveryOutcome ==
    /\ (Ended("get_weekly_recommendations") /\ Registered) =>
          /\ ret.status = "returned"
          /\ HasKeys(ret.value, WeeklyKeys)
    /\ Ended("analyze_job_market") =>
          /\ ret.status = "returned"
          /\ HasKeys(ret.value, JobMarketKeys)

\* C11 amended: the five keys, and the ten keys, are returned when the agent
\* call raises, returns a result without the expected attributes or without
\* a value, or returns an instance of the operation's schema; a value of any
\* other shape is returned unchanged.
C11_KeysUnlessPassedThrough ==
    /\ (Ended("get_weekly_recommendations") /\ Registered) =>
          /\ ret.status = "returned"
          /\ IF agent_result.kind = "value"
                /\ agent_result.value.type # "WeeklyRecommendations"
             THEN ret.value = agent_result.value
             ELSE HasKeys(ret.value, WeeklyKeys)
    /\ Ended("analyze_job_market") =>
          /\ ret.status = "returned"
          /\ IF agent_result.kind = "value"
                /\ agent_result.value.type # "JobMarketAnalysis"
             THEN ret.value = agent_result.value
             ELSE HasKeys(ret.value, JobMarketKeys)

\* C11 witness: the agent's result had no outputs and the five weekly keys
\* came back.
C11_Witness ==
    /\ Ended("get_weekly_recommendations")
    /\ Registered
    /\ agent_result.kind = "no_outputs"
    /\ HasKeys(ret.value, WeeklyKeys)

\* The call that has just ended with the fallback was made with the
\* arguments, and against the profile store, of the call set aside.
SameCallAgain ==
    /\ pc = "idle"
    /\ agent_result.kind = "raises"
    /\ earlier.call = call
    /\ earlier.profiles = pre_profiles

\* value without what a roadmap takes from the clock.
Timeless(value) ==
    IF value.type = "CareerRoadmap"
    THEN [value EXCEPT !.v.roadmap_id = <<>>, !.v.created_at = 0,
                       !.v.last_reviewed = 0]
    ELSE value

\* C12 as stated: with an agent that fails on every call, an advisory
\* operation called twice with the same arguments against the same store
\* contents returns the same result both times, create_career_roadmap at
\* two clock times included.
C12_SameResultTwice ==
    SameCallAgain => ret = earlier.ret

\* C12 amended: the two results are the same for the four operations other
\* than create_career_roadmap; the two fallback roadmaps agree in every field
\* but roadmap_id, created_at and last_reviewed, which each roadmap takes from
\* the clock at its own call.
C12_SameResultButClock ==
    SameCallAgain =>
        /\ ret.status = "returned"
        /\ Timeless(ret.value) = Timeless(earlier.ret.value)
        /\ call.op # "create_career_roadmap" => ret = earlier.ret
        /\ call.op = "create_career_roadmap" =>
              /\ ret.value.v.roadmap_id =
                    <<"fallback_roadmap", call.user_id,
                      strftime(ret.value.v.created_at)>>
              /\ ret.value.v.last_reviewed = ret.value.v.created_at

\* C12 witness: the same roadmap call was made again in a later second.
C12_Witness ==
    /\ SameCallAgain
    /\ call.op = "create_career_roadmap"
    /\ ret.value.v.roadmap_id # earlier.ret.value.v.roadmap_id
    /\ Timeless(ret.value) = Timeless(earlier.ret.value)

ProfileBasedFallbackOps ==
    {"assess_skills_and_goals", "create_career_roadmap",
     "get_weekly_recommendations"}

\* call without the user id it names.
OtherArguments(c) ==
    [k \in DOMAIN c \ {"user_id"} |-> c[k]]

\* The call that has just ended with the fallback is the operation of the
\* call set aside, with the same other arguments, for a registered profile
\* that differs from the profile of that call.
SameCallOtherProfile ==
    /\ pc = "idle"
    /\ agent_result.kind = "raises"
    /\ call.op \in ProfileBasedFallbackOps
    /\ earlier.call.op = call.op
    /\ OtherArguments(earlier.call) = OtherArguments(call)
    /\ earlier.profiles[earlier.call.user_id] # pre_profiles[call.user_id]

\* value without what a roadmap takes from the clock and from the user id
\* it was asked for.
Anonymous(value) ==
    IF value.type = "CareerRoadmap"
    THEN [Timeless(value) EXCEPT !.v.user_id = ""]
    ELSE value

\* C13 as stated: the fallback payload of assess_skills_and_goals,
\* create_career_roadmap and get_weekly_recommendations is the same for two
\* registered profiles that differ, the other arguments being the same.
C13_FallbackIgnoresProfile ==
    SameCallOtherProfile =>
        Anonymous(ret.value) = Anonymous(earlier.ret.value)

\* C13 amended: the fallback payloads of assess_skills_and_goals and
\* get_weekly_recommendations are the same for any two registered profiles;
\* the fallback roadmap takes current_position from the profile's
\* current_role (and user_id from the call), and its other fields that no
\* clock sets are the same for any two profiles.
C13_FallbackButCurrentRole ==
    SameCallOtherProfile =>
        /\ call.op # "create_career_roadmap" => ret = earlier.ret
        /\ call.op = "create_career_roadmap" =>
              /\ ret.value.v.current_position =
                    pre_profiles[call.user_id].v.current_role
              /\ ret.value.v.user_id = call.user_id
              /\ [Anonymous(ret.value) EXCEPT !.v.current_position = ""] =
                 [Anonymous(earlier.ret.value)
                     EXCEPT !.v.current_position = ""]

\* C13 witness: the fallback roadmaps of two profiles with different current
\* roles differ in current_position.
C13_Witness ==
    /\ SameCallOtherProfile
    /\ call.op = "create_career_roadmap"
    /\ ret.value.v.current_position # earlier.ret.value.v.current_position

\* The call ended by handing a value back.
Accepted ==
    ret.status = "returned"

\* The call ended by raising the validation error.
Rejected ==
    /\ ret.status = "raised"
    /\ ret.value = Str("ValidationError")

Outside(v, lo, hi) ==
    v < lo \/ v > hi

\* C14: a Skill with relevance_score outside [0,10], an Interest with
\* intensity or career_relevance outside [0,10], a CareerGoal with priority
\* outside [1,5] and a LearningResource with rating outside [0,5] are
\* rejected; a value equal to either bound is accepted and kept.
C14_RangesEnforced ==
    /\ Ended("Skill") =>
          /\ Outside(call.data.relevance_score, 0, 100) => Rejected
          /\ call.data.relevance_score \in {0, 100} =>
                /\ Accepted
                /\ ret.value.v.relevance_score = call.data.relevance_score
    /\ Ended("Interest") =>
          /\ (\/ Outside(call.data.intensity, 0, 100)
              \/ Outside(call.data.career_relevance, 0, 100)) => Rejected
          /\ (/\ call.data.intensity \in {0, 100}
              /\ call.data.career_relevance \in {0, 100}) =>
                /\ Accepted
                /\ ret.value.v.intensity = call.data.intensity
                /\ ret.value.v.career_relevance = call.data.career_relevance
    /\ Ended("CareerGoal") =>
          /\ Outside(call.data.priority, 1, 5) => Rejected
          /\ call.data.priority \in {1, 5} =>
                /\ Accepted
                /\ ret.value.v.priority = call.data.priority
    /\ Ended("LearningResource") =>
          /\ Outside(call.data.rating, 0, 50) => Rejected
          /\ call.data.rating \in {0, 50} =>
                /\ Accepted
                /\ ret.value.v.rating = call.data.rating

\* C14 witness: a Skill with relevance_score 10 was constructed.
C14_Witness ==
    /\ Ended("Skill")
    /\ call.data.relevance_score = 100
    /\ Accepted

\* pair is a (min, max) pair with min above max.
Reversed(pair) ==
    pair[1] > pair[2]

\* C15: a JobOpportunity whose salary_range has min > max, and a UserProfile
\* whose salary_expectations has min > max, are rejected with a validation
\* error, so every stored profile has salary_expectations with min <= max.
C15_SalaryPairOrdered ==
    /\ (Ended("JobOpportunity") /\ Reversed(call.data.salary_range)) =>
          Rejected
    /\ (/\ Ended("create_user_profile")
        /\ "salary_expectations" \in DOMAIN call.user_data
        /\ Reversed(call.user_data.salary_expectations)) => Rejected
    /\ \A u \in DOMAIN user_profiles :
          ~Reversed(user_profiles[u].v.salary_expectations)

\* C16: a Skill with negative years_experience, and a LearningResource with
\* negative duration_hours, are rejected with a validation error.
C16_NegativeRejected ==
    /\ (Ended("Skill") /\ call.data.years_experience < 0) => Rejected
    /\ (Ended("LearningResource") /\ call.data.duration_hours < 0) =>
          Rejected

\* user_data lacks a required field, or names a career stage, learning style
\* or industry that is no enumerator.
ViolatesFieldConstraint(user_data) ==
    \/ ~(RequiredProfileFields \subseteq DOMAIN user_data)
    \/ user_data.career_stage \notin CareerStage
    \/ user_data.learning_style \notin LearningStyle
    \/ user_data.industry_preference \notin Industry

\* C17: create_user_profile called with data that lacks a required field or
\* names no enumerator raises the validation error to the caller and leaves
\* the profile store as it was: nothing added, nothing replaced.
C17_InvalidProfileLeavesStore ==
    (/\ Ended("create_user_profile")
     /\ ViolatesFieldConstraint(call.user_data)) =>
        /\ Rejected
        /\ user_profiles = pre_profiles
        /\ \A u \in DOMAIN user_profiles :
              \E i \in 1..Len(created) : created[i] = user_profiles[u]

\* C17 witness: data naming no enumerator was given for a user id that has
\* a profile, and the error was raised.
C17_Witness ==
    /\ Ended("create_user_profile")
    /\ call.user_data.career_stage \notin CareerStage
    /\ call.user_data.user_id \in DOMAIN user_profiles
    /\ Rejected

AdvisoryOps ==
    {"assess_skills_and_goals", "generate_learning_path",
     "create_career_roadmap", "analyze_job_market",
     "get_weekly_recommendations"}

\* The advisory call in progress or last made got past the user-existence
\* check (analyze_job_market has none).
PassedUserCheck ==
    call.op = "analyze_job_market" \/ Registered

\* C18: an invocation of an advisory operation calls the agent at most once,
\* and exactly once when it gets past the user-existence check; when the
\* agent call has raised the operation has returned its fallback, with no
\* second agent call.
C18_AtMostOneAgentCall ==
    call.op \in AdvisoryOps =>
        /\ agent_calls = IF PassedUserCheck THEN 1 ELSE 0
        /\ agent_result.kind = "raises" =>
              /\ pc = "idle"
              /\ ret.status = "returned"
              /\ agent_calls = 1

\* C18 witness: the one agent call of an assessment raised and the fallback
\* was returned.
C18_Witness ==
    /\ Ended("assess_skills_and_goals")
    /\ agent_result.kind = "raises"
    /\ agent_calls = 1
    /\ ret.status = "returned"

ProfileLists ==
    {"skills", "interests", "career_goals", "learning_resources"}

\* Every element of xs is an element of ys.
KeepsElements(xs, ys) ==
    \A i \in 1..Len(xs) : \E j \in 1..Len(ys) : ys[j] = xs[i]

C20_DumpedOrPassedThrough ==
    \A s \in {<<"assess_skills_and_goals", "SkillAssessment">>,
              <<"analyze_job_market", "JobMarketAnalysis">>,
              <<"get_weekly_recommendations", "WeeklyRecommendations">>} :
        (Ended(s[1]) /\ agent_result.kind = "value") =>
            /\ ret.status = "returned"
            /\ IF agent_result.value.type = s[2]
               THEN /\ ret.value.type = "dict"
                    /\ ret.value.v = agent_result.value.v
               ELSE ret.value = agent_result.value

\* C20 witness: the agent answered a job market call with free text, and the
\* text came back.
C20_Witness ==
    /\ Ended("analyze_job_market")
    /\ agent_result.kind = "value"
    /\ agent_result.value.type = "str"
    /\ ret.value = agent_result.value

\* C21: analyze_job_market returns a result whatever the profile store holds
\* (nothing included), leaves both stores as they were, and returns what an
\* earlier call with the same arguments and the same answer of the agent
\* returned against other stores.
C21_NoProfileDependency ==
    Ended("analyze_job_market") =>
        /\ ret.status = "returned"
        /\ user_profiles = pre_profiles
        /\ career_roadmaps = pre_roadmaps
        /\ (earlier.call = call /\ earlier.result = agent_result) =>
              ret = earlier.ret

\* C21 witness: the call was made against an empty profile store, and again
\* with a profile and a roadmap stored.
C21_Witness ==
    /\ Ended("analyze_job_market")
    /\ earlier.call = call
    /\ earlier.result = agent_result
    /\ earlier.profiles = <<>>
    /\ earlier.ret.status = "returned"
    /\ pre_profiles # <<>>
    /\ pre_roadmaps # <<>>

\* C22: a roadmap that create_career_roadmap has returned is in the roadmap
\* store under its roadmap_id, whether the agent call succeeded or the
\* fallback roadmap was returned.
C22_ReturnedRoadmapStored ==
    (Ended("create_career_roadmap") /\ ret.status = "returned") =>
        /\ ret.value.v.roadmap_id \in DOMAIN career_roadmaps
        /\ career_roadmaps[ret.value.v.roadmap_id] = ret.value

\* The path a create_career_roadmap call took, by how its agent call ended.
RoadmapPath(result) ==
    IF has_final_output(result) THEN "roadmap" ELSE "fallback_roadmap"

\* Two create_career_roadmap calls that took the same path have returned:
\* the one set aside, and the call that has just ended.
TwoRoadmapsSamePath ==
    /\ Ended("create_career_roadmap")
    /\ earlier.call.op = "create_career_roadmap"
    /\ ret.status = "returned"
    /\ earlier.ret.status = "returned"
    /\ RoadmapPath(agent_result) = RoadmapPath(earlier.result)

\* C23 without the store: the roadmap id is the path's prefix, the user id
\* and the second of creation, so two roadmaps of one path have the same id
\* exactly when they have the same user id and second.
SameIdSameUserSameSecond ==
    TwoRoadmapsSamePath =>
        /\ ret.value.v.roadmap_id =
              <<RoadmapPath(agent_result), call.user_id,
                strftime(ret.value.v.created_at)>>
        /\ ret.value.v.roadmap_id = earlier.ret.value.v.roadmap_id <=>
              /\ call.user_id = earlier.call.user_id
              /\ strftime(ret.value.v.created_at) =
                    strftime(earlier.ret.value.v.created_at)

\* C23: two create_career_roadmap calls of the same path yield the same
\* roadmap id exactly when they have the same user id and fall in the same
\* second, and then the roadmap store keeps the later roadmap under that id.
C23_SameIdKeepsLater ==
    /\ SameIdSameUserSameSecond
    /\ (/\ TwoRoadmapsSamePath
        /\ ret.value.v.roadmap_id = earlier.ret.value.v.roadmap_id) =>
          /\ ret.value.v.roadmap_id \in DOMAIN career_roadmaps
          /\ career_roadmaps[ret.value.v.roadmap_id] = ret.value

\* C24: an operation that is under way completes, given that the agent call
\* returns or raises in the end; and an operation that waits leaves its wait
\* by nothing but the agent call ending, so that it waits for ever if the
\* call never ends.
C24_CompletesWhenAgentAnswers ==
    /\ (pc # "idle") ~> (pc = "idle" /\ ret.status \in {"returned", "raised"})
    /\ [][pc # "idle" =>
             /\ pc' = "idle" => agent_result'.kind # "none"
             /\ pc' # "idle" => UNCHANGED <<pc, call, ret, agent_result>>]_vars

\* C24 witness: an operation waited for the agent and has completed.
C24_Witness ==
    /\ Ended("get_weekly_recommendations")
    /\ agent_calls = 1
    /\ agent_result.kind = "no_value"
    /\ ret.status = "returned"

\* The stores differ from the earlier ones in at most one entry, which is
\* new or replaced; no entry is gone.
AtMostOneEntryWritten(before, after) ==
    /\ DOMAIN before \subseteq DOMAIN after
    /\ Cardinality({k \in DOMAIN after :
                      k \notin DOMAIN before \/ after[k] # before[k]}) <= 1

\* C25: while an advisory operation runs and after it has returned or raised,
\* the profile store is what it was before the call; the roadmap store is
\* what it was too, except that create_career_roadmap may have added or
\* replaced one entry of it.
C25_AdvisoryFrame ==
    call.op \in AdvisoryOps =>
        /\ user_profiles = pre_profiles
        /\ IF call.op = "create_career_roadmap"
           THEN AtMostOneEntryWritten(pre_roadmaps, career_roadmaps)
           ELSE career_roadmaps = pre_roadmaps

\* C25 witness: create_career_roadmap has replaced the one entry of the
\* roadmap store by another roadmap, in front of two stored profiles.
C25_Witness ==
    /\ Ended("create_career_roadmap")
    /\ ret.status = "returned"
    /\ Cardinality(DOMAIN pre_profiles) = 2
    /\ Cardinality(DOMAIN pre_roadmaps) = 1
    /\ DOMAIN career_roadmaps = DOMAIN pre_roadmaps
    /\ career_roadmaps # pre_roadmaps

\* C26: every key of the profile store is the user_id of the profile under
\* it, every key of the roadmap store is the roadmap_id of the roadmap under
\* it, and the user_id of every stored roadmap is a key of the profile store.
C26_StoresKeyedById ==
    /\ \A k \in DOMAIN user_profiles :
          /\ user_profiles[k].type = "UserProfile"
          /\ user_profiles[k].v.user_id = k
    /\ \A r \in DOMAIN career_roadmaps :
          /\ career_roadmaps[r].type = "CareerRoadmap"
          /\ career_roadmaps[r].v.roadmap_id = r
          /\ career_roadmaps[r].v.user_id \in DOMAIN user_profiles

\* C26 witness: two profiles and the roadmaps of two users are stored.
C26_Witness ==
    /\ Cardinality(DOMAIN user_profiles) = 2
    /\ Cardinality(DOMAIN career_roadmaps) = 2
    /\ \E r, q \in DOMAIN career_roadmaps :
          career_roadmaps[r].v.user_id # career_roadmaps[q].v.user_id

\* The last run of the page script was a submission of the profile form.
FormSubmitted ==
    rendered.form # None

\* C29: a submitted profile form with a name and a current role reaches
\* create_user_profile, and the profile it returns becomes current_user,
\* whether the skills field was filled in or not; with an empty skills field
\* the profile has an empty skills list; a form lacking the name or the
\* current role creates nothing, so no stored profile lacks either.
C29_FormReachesCreate ==
    /\ FormSubmitted =>
          IF rendered.form.name # <<>> /\ rendered.form.current_role # ""
          THEN /\ rendered.shows \in {"Profile created successfully",
                                      "Error creating profile"}
               /\ call.op = "create_user_profile"
               /\ call.user_data.name = rendered.form.name
               /\ ret.status = "returned" =>
                     /\ session_state.current_user = ret.value
                     /\ rendered.form.skills_input = <<>> =>
                           ret.value.v.skills = <<>>
          ELSE rendered.shows =
                   "Please fill in at least your name and current role."
    /\ \A k \in DOMAIN user_profiles :
          /\ user_profiles[k].v.name # <<>>
          /\ user_profiles[k].v.current_role # ""

\* current_user of the session is set.
HasCurrentUser ==
    session_state.current_user # None

\* C27: in a session of the web page, current_user, when set, has a user_id
\* that is a key of the session agent's profile store; an advisory operation
\* waits for the agent only while current_user is set, for that user; and
\* no advisory operation has ended with the not-found error.
C27_CurrentUserRegistered ==
    /\ HasCurrentUser =>
          session_state.current_user.v.user_id \in DOMAIN user_profiles
    /\ pc = "delegate" =>
          /\ HasCurrentUser
          /\ call.op # "analyze_job_market" =>
                call.user_id = session_state.current_user.v.user_id
    /\ call.op \in AdvisoryOps =>
          /\ PassedUserCheck
          /\ ret # Raised("ValueError")

\* C27 witness: with two profiles stored, the second user's assessment has
\* been made after the session had been cleared.
C27_Witness ==
    /\ Ended("assess_skills_and_goals")
    /\ ret.status = "returned"
    /\ HasCurrentUser
    /\ call.user_id = session_state.current_user.v.user_id
    /\ Cardinality(DOMAIN user_profiles) = 2
    /\ session_state.current_user.v.oid = 2
    /\ session_state.career_roadmap = None
    /\ career_roadmaps # <<>>

ResultFields ==
    {"assessment_results", "learning_path", "career_roadmap"}

\* C28: while current_user is set, each of assessment_results, learning_path
\* and career_roadmap that is set was produced by a call made for the
\* current user, and a career_roadmap held has the current user's user_id.
C28_ResultsOfCurrentUser ==
    HasCurrentUser =>
        /\ \A f \in ResultFields :
              session_state[f] # None =>
                  produced_for[f] = session_state.current_user.v.user_id
        /\ session_state.career_roadmap # None =>
              session_state.career_roadmap.v.user_id =
                  session_state.current_user.v.user_id

\* What the pages behind the current_user check show while it is unset.
CreateProfilePrompts ==
    {"Welcome! Please create a profile to get started.",
     "Please create a profile first to assess skills.",
     "Please create a profile first to generate learning paths.",
     "Please create a profile first to create career roadmaps.",
     "Please create a profile first to analyze job markets.",
     "Please create a profile first to view analytics."}

\* What the settings page and the profile page show when no profile is
\* created, and the page before its first run.
OtherPageTexts ==
    {"", "All data cleared!", "Settings & Configuration",
     "Create Your Career Profile",
     "Please fill in at least your name and current role.",
     "UnboundLocalError", "Error creating profile"}

\* C30: "Clear All Data" unsets current_user, assessment_results,
\* learning_path and career_roadmap and leaves the agent's two stores as they
\* are; and while current_user is unset no facade call is under way and
\* whatever a page behind the check has shown is its create-a-profile prompt.
C30_ClearAllData ==
    /\ [][rendered'.shows = "All data cleared!" =>
             /\ session_state' = NoSession
             /\ UNCHANGED <<user_profiles, career_roadmaps>>]_vars
    /\ [](~HasCurrentUser =>
             /\ pc = "idle"
             /\ session_state = NoSession
             /\ rendered.shows \in CreateProfilePrompts \cup OtherPageTexts)

\* C30 witness: after the session was cleared with profiles and a roadmap
\* stored, the learning path page has shown its prompt.
C30_Witness ==
    /\ ~HasCurrentUser
    /\ rendered.shows =
           "Please create a profile first to generate learning paths."
    /\ Cardinality(DOMAIN user_profiles) = 2
    /\ career_roadmaps # <<>>
    /\ pre_roadmaps # career_roadmaps

====
